---- MODULE Spec2Model ----
(***************************************************************************)
(* Model of the two scaffold-cleanup scripts of backstage-agent-skills:    *)
(*   cleanup-scaffolding.js          (UI / frontend variant)               *)
(*   cleanup-scaffolding-backend.js  (service / backend variant)           *)
(* Texts are TLA+ strings handled character by character, the file system  *)
(* is a function from path strings to nodes, and each numbered step of a   *)
(* script is one action.                                                   *)
(***************************************************************************)
EXTENDS Integers, Sequences, FiniteSets, TLC

(***************************************************************************)
(* Bounds                                                                  *)
(***************************************************************************)
\* number of invocations made in succession against the same package
MaxRuns == 2
\* longest pluginId drawn by the name-derivation specification
MaxIdLen == 4

(***************************************************************************)
(* Strings                                                                 *)
(***************************************************************************)
\* String.prototype.charAt, positions counted from 1: "" outside the string
CharAt(s, i) == IF 1 <= i /\ i <= Len(s) THEN SubSeq(s, i, i) ELSE ""

StartsWithAt(s, i, lit) ==
  /\ i + Len(lit) - 1 <= Len(s)
  /\ SubSeq(s, i, i + Len(lit) - 1) = lit

Min(S) == CHOOSE x \in S : \A y \in S : x <= y

\* s.indexOf(lit, i), 0 when there is none
indexOf(s, lit, i) ==
  LET at == {j \in i..Len(s) : StartsWithAt(s, j, lit)}
  IN IF at = {} THEN 0 ELSE Min(at)

\* s.includes(lit)
Contains(s, lit) == indexOf(s, lit, 1) # 0

\* number of (non-overlapping, leftmost) occurrences of lit in s
RECURSIVE CountFrom(_, _, _)
CountFrom(s, lit, i) ==
  LET j == indexOf(s, lit, i)
  IN IF j = 0 THEN 0 ELSE 1 + CountFrom(s, lit, j + Len(lit))

Count(s, lit) == CountFrom(s, lit, 1)

\* the characters the regular-expression class \s matches
Whitespace == {" ", "\t", "\n", "\r"}

RECURSIVE SkipWs(_, _)
SkipWs(s, i) ==
  IF i <= Len(s) /\ CharAt(s, i) \in Whitespace THEN SkipWs(s, i + 1) ELSE i

\* String.prototype.toUpperCase on one character
UpperOf ==
  [c \in {"a","b","c","d","e","f","g","h","i","j","k","l","m",
          "n","o","p","q","r","s","t","u","v","w","x","y","z"} |->
     CASE c = "a" -> "A" [] c = "b" -> "B" [] c = "c" -> "C" [] c = "d" -> "D"
       [] c = "e" -> "E" [] c = "f" -> "F" [] c = "g" -> "G" [] c = "h" -> "H"
       [] c = "i" -> "I" [] c = "j" -> "J" [] c = "k" -> "K" [] c = "l" -> "L"
       [] c = "m" -> "M" [] c = "n" -> "N" [] c = "o" -> "O" [] c = "p" -> "P"
       [] c = "q" -> "Q" [] c = "r" -> "R" [] c = "s" -> "S" [] c = "t" -> "T"
       [] c = "u" -> "U" [] c = "v" -> "V" [] c = "w" -> "W" [] c = "x" -> "X"
       [] c = "y" -> "Y" [] c = "z" -> "Z"]

toUpperCase(c) == IF c \in DOMAIN UpperOf THEN UpperOf[c] ELSE c

\* String.prototype.split(sep) for a one-character separator: the pieces
\* between separators, empty pieces included
RECURSIVE SplitFrom(_, _, _)
SplitFrom(s, sep, i) ==
  LET j == indexOf(s, sep, i)
  IN IF j = 0 THEN <<SubSeq(s, i, Len(s))>>
     ELSE <<SubSeq(s, i, j - 1)>> \o SplitFrom(s, sep, j + 1)

split(s, sep) == SplitFrom(s, sep, 1)

\* Array.prototype.join(sep)
RECURSIVE join(_, _)
join(parts, sep) ==
  IF Len(parts) = 0 THEN ""
  ELSE IF Len(parts) = 1 THEN parts[1]
  ELSE parts[1] \o sep \o join(Tail(parts), sep)

(***************************************************************************)
(* Regular expressions.  A pattern is a sequence of elements: a literal,   *)
(* a one-character class, an optional literal (x?) or \s*.  MatchEnd       *)
(* gives the position after the match of elements k.. that starts at i,    *)
(* 0 when there is none; quantifiers are greedy and backtrack.             *)
(***************************************************************************)
Lit(v) == [t |-> "lit", v |-> v]
Cls(v) == [t |-> "cls", v |-> v]
Opt(v) == [t |-> "opt", v |-> v]
Ws == [t |-> "ws", v |-> ""]

RECURSIVE MatchEnd(_, _, _, _)
RECURSIVE MatchWs(_, _, _, _, _)
MatchEnd(re, k, s, i) ==
  IF k > Len(re) THEN i
  ELSE LET e == re[k] IN
    CASE e.t = "lit" ->
           IF StartsWithAt(s, i, e.v)
           THEN MatchEnd(re, k + 1, s, i + Len(e.v)) ELSE 0
      [] e.t = "cls" ->
           IF i <= Len(s) /\ CharAt(s, i) \in e.v
           THEN MatchEnd(re, k + 1, s, i + 1) ELSE 0
      [] e.t = "opt" ->
           LET taken == IF StartsWithAt(s, i, e.v)
                        THEN MatchEnd(re, k + 1, s, i + Len(e.v)) ELSE 0
           IN IF taken # 0 THEN taken ELSE MatchEnd(re, k + 1, s, i)
      [] e.t = "ws" -> MatchWs(re, k, s, i, SkipWs(s, i))

\* \s* having consumed s[i..j-1]: try the rest, then give one character back
MatchWs(re, k, s, i, j) ==
  LET r == MatchEnd(re, k + 1, s, j)
  IN IF r # 0 THEN r
     ELSE IF j > i THEN MatchWs(re, k, s, i, j - 1) ELSE 0

\* the first position from i on where the pattern matches, 0 when none
NextMatch(re, s, i) ==
  LET at == {j \in i..Len(s) : MatchEnd(re, 1, s, j) > j}
  IN IF at = {} THEN 0 ELSE Min(at)

\* String.prototype.replace(/re/g, repl): every leftmost match, left to
\* right, the replacement text is not scanned again.  (repl holds no "$".)
RECURSIVE ReplaceFrom(_, _, _, _)
ReplaceFrom(re, repl, s, i) ==
  LET j == NextMatch(re, s, i)
  IN IF j = 0 THEN SubSeq(s, i, Len(s))
     ELSE SubSeq(s, i, j - 1) \o repl \o ReplaceFrom(re, repl, s, MatchEnd(re, 1, s, j))

\* faulty variant: a pattern without a match leaves nothing of the text
replaceOrEmpty(s, re, repl) ==
  IF NextMatch(re, s, 1) = 0 THEN "" ELSE ReplaceFrom(re, repl, s, 1)

replace(s, re, repl) == ReplaceFrom(re, repl, s, 1)

\* RegExp.prototype.test
test(re, s) == NextMatch(re, s, 1) # 0

(***************************************************************************)
(* Paths: path.join concatenates with "/" and normalises                   *)
(***************************************************************************)
RECURSIVE NormalizeSegs(_, _)
NormalizeSegs(segs, acc) ==
  IF Len(segs) = 0 THEN acc
  ELSE LET h == Head(segs) IN
    IF h = "" \/ h = "." THEN NormalizeSegs(Tail(segs), acc)
    ELSE IF h = ".."
      THEN IF Len(acc) > 0 /\ acc[Len(acc)] # ".."
           THEN NormalizeSegs(Tail(segs), SubSeq(acc, 1, Len(acc) - 1))
           ELSE NormalizeSegs(Tail(segs), Append(acc, h))
    ELSE NormalizeSegs(Tail(segs), Append(acc, h))

normalize(p) ==
  LET segs == NormalizeSegs(split(p, "/"), <<>>)
  IN IF Len(segs) = 0 THEN "." ELSE join(segs, "/")

PathJoin(parts) == normalize(join(parts, "/"))

\* path.dirname of a normalised path
dirname(p) ==
  LET segs == split(p, "/")
  IN IF Len(segs) <= 1 THEN "." ELSE join(SubSeq(segs, 1, Len(segs) - 1), "/")

\* q is p or lies below the directory p
Under(q, p) == q = p \/ StartsWithAt(q, 1, p \o "/")

(***************************************************************************)
(* File system: a function from the paths that exist to their nodes.  A    *)
(* node is a directory or a file with its text.  The calls below are the   *)
(* node:fs calls the scripts make, with the errors they throw.             *)
(***************************************************************************)
DirNode == [kind |-> "dir", data |-> ""]
FileNode(text) == [kind |-> "file", data |-> text]

existsSync(f, p) == p \in DOMAIN f
IsDir(f, p) == p \in DOMAIN f /\ f[p].kind = "dir"
IsFile(f, p) == p \in DOMAIN f /\ f[p].kind = "file"

\* the error fs.readFileSync(p) throws, "" when it returns the text
ReadError(f, p) ==
  IF ~existsSync(f, p) THEN "ENOENT"
  ELSE IF IsDir(f, p) THEN "EISDIR" ELSE ""

Without(f, gone) == [q \in DOMAIN f \ gone |-> f[q]]
Below(f, p) == {q \in DOMAIN f : Under(q, p)}

\* fs.rmSync(p, {recursive: true, force: true})
RmError(f, p) == ""
\* faulty variant: the directory entry goes, what it holds stays
RmResultShallow(f, p) == Without(f, {p})
RmResult(f, p) == Without(f, Below(f, p))

\* fs.unlinkSync(p)
UnlinkError(f, p) ==
  IF ~existsSync(f, p) THEN "ENOENT"
  ELSE IF IsDir(f, p) THEN "EISDIR" ELSE ""
UnlinkResult(f, p) == Without(f, {p})

\* fs.writeFileSync(p, text)
WriteError(f, p) ==
  IF IsDir(f, p) THEN "EISDIR"
  ELSE IF ~IsDir(f, dirname(p)) THEN "ENOENT" ELSE ""
WriteResult(f, p, text) ==
  [q \in DOMAIN f \cup {p} |-> IF q = p THEN FileNode(text) ELSE f[q]]

\* fs.renameSync(from, to), the rename(2) of the platform
RenameError(f, from, to) ==
  IF ~existsSync(f, from) THEN "ENOENT"
  ELSE IF from = to THEN ""
  ELSE IF ~IsDir(f, dirname(to)) THEN "ENOENT"
  ELSE IF IsDir(f, from) /\ Under(to, from) THEN "EINVAL"
  ELSE IF IsDir(f, from) /\ IsFile(f, to) THEN "ENOTDIR"
  ELSE IF IsDir(f, from) /\ IsDir(f, to) /\ Below(f, to) # {to} THEN "ENOTEMPTY"
  ELSE IF IsFile(f, from) /\ IsDir(f, to) THEN "EISDIR"
  ELSE ""
Moved(q, from, to) == to \o SubSeq(q, Len(from) + 1, Len(q))
RenameResult(f, from, to) ==
  IF from = to THEN f
  ELSE LET src == Below(f, from)
           rest == Without(f, src \cup Below(f, to))
           dst == {Moved(q, from, to) : q \in src}
       IN [q \in DOMAIN rest \cup dst |->
             IF q \in dst
             THEN f[CHOOSE o \in src : Moved(o, from, to) = q]
             ELSE rest[q]]

(***************************************************************************)
(* A step runs in a context: the tree, the exception in flight ("" when    *)
(* none), the mutating calls made so far in the step, the call of the step *)
(* that the platform fails (0: none), and the calls and lines so far.      *)
(***************************************************************************)
Throw(c, code) == IF c.err # "" THEN c ELSE [c EXCEPT !.err = code]

\* faulty variant: a call that the platform fails has taken effect all the same
CallHalfDone(c, op, p, code, result) ==
  IF c.err # "" THEN c
  ELSE LET c1 == [c EXCEPT !.muts = @ + 1,
                           !.trace = Append(@, [op |-> op, path |-> p])]
       IN IF c1.muts = c.fault THEN [c1 EXCEPT !.err = "EACCES", !.fs = result]
          ELSE IF code # "" THEN [c1 EXCEPT !.err = code]
          ELSE [c1 EXCEPT !.fs = result]

Call(c, op, p, code, result) ==
  IF c.err # "" THEN c
  ELSE LET c1 == [c EXCEPT !.muts = @ + 1,
                           !.trace = Append(@, [op |-> op, path |-> p])]
       IN IF c1.muts = c.fault THEN [c1 EXCEPT !.err = "EACCES"]
          ELSE IF code # "" THEN [c1 EXCEPT !.err = code]
          ELSE [c1 EXCEPT !.fs = result]

rmSync(c, p) == Call(c, "rmSync", p, RmError(c.fs, p), RmResult(c.fs, p))
unlinkSync(c, p) ==
  Call(c, "unlinkSync", p, UnlinkError(c.fs, p), UnlinkResult(c.fs, p))
writeFileSync(c, p, text) ==
  Call(c, "writeFileSync", p, WriteError(c.fs, p), WriteResult(c.fs, p, text))
renameSync(c, from, to) ==
  Call(c, "renameSync", from, RenameError(c.fs, from, to),
       RenameResult(c.fs, from, to))

\* console.log
Log(c, line) == IF c.err # "" THEN c ELSE [c EXCEPT !.log = Append(@, line)]

\* fs.existsSync inside a step
Exists(c, p) == c.err = "" /\ existsSync(c.fs, p)

(***************************************************************************)
(* cleanup-scaffolding.js (UI variant): names, paths and steps 1-7         *)
(***************************************************************************)
\* faulty variant: word.slice(0) keeps the first character a second time
toPascalCaseWordKeepFirst(word) == toUpperCase(CharAt(word, 1)) \o word

toPascalCaseWord(word) == toUpperCase(CharAt(word, 1)) \o SubSeq(word, 2, Len(word))

toPascalCase(str) ==
  LET words == split(str, "-")
  IN join([k \in 1..Len(words) |-> toPascalCaseWord(words[k])], "")

\* faulty variant: the name is the PascalCase identifier, with no suffix
ComponentNameOfBare(id) == toPascalCase(id)
ComponentNameOf(id) == toPascalCase(id) \o "Page"

packageJsonPath(pluginPath) == PathJoin(<<pluginPath, "package.json">>)
componentsDir(pluginPath) == PathJoin(<<pluginPath, "src", "components">>)
exampleComponentDir(pluginPath) ==
  PathJoin(<<componentsDir(pluginPath), "ExampleComponent">>)
newComponentDir(pluginPath, name) == PathJoin(<<componentsDir(pluginPath), name>>)
exampleFetchDir(pluginPath) ==
  PathJoin(<<componentsDir(pluginPath), "ExampleFetchComponent">>)
componentFilePath(pluginPath, name) ==
  PathJoin(<<newComponentDir(pluginPath, name), "ExampleComponent.tsx">>)
newComponentFilePath(pluginPath, name) ==
  PathJoin(<<newComponentDir(pluginPath, name), name \o ".tsx">>)
testFilePath(pluginPath, name) ==
  PathJoin(<<newComponentDir(pluginPath, name), "ExampleComponent.test.tsx">>)
newTestFilePath(pluginPath, name) ==
  PathJoin(<<newComponentDir(pluginPath, name), name \o ".test.tsx">>)
indexPath(pluginPath, name) ==
  PathJoin(<<newComponentDir(pluginPath, name), "index.ts">>)
pluginFilePath(pluginPath) == PathJoin(<<pluginPath, "src", "plugin.ts">>)
\* faulty variant: the "dev" segment is forgotten
devDirNoSegment(pluginPath) == PathJoin(<<pluginPath>>)
devDir(pluginPath) == PathJoin(<<pluginPath, "dev">>)
pluginTestPath(pluginPath) == PathJoin(<<pluginPath, "src", "plugin.test.ts">>)

Quote == {"'", "\""}

FetchImportRe ==
  <<Lit("import { ExampleFetchComponent } from "), Cls(Quote),
    Lit("../ExampleFetchComponent"), Cls(Quote), Opt(";"), Opt("\n")>>
FetchJsxRe ==
  <<Ws, Lit("<Grid item>"), Ws, Lit("<ExampleFetchComponent />"), Ws,
    Lit("</Grid>"), Ws>>
ExportRe == <<Lit("export const ExampleComponent")>>
FromRe == <<Lit("from "), Cls(Quote), Lit("./ExampleComponent"), Cls(Quote)>>
PlaceholderRe == <<Lit("ExampleComponent")>>
DynamicImportRe ==
  <<Lit("import("), Cls(Quote), Lit("./components/ExampleComponent"),
    Cls(Quote), Lit(")")>>
MemberRe == <<Lit("m.ExampleComponent")>>

\* Step 3: the text written to <ComponentName>.tsx
ComponentContent(content, name) ==
  LET c1 == replace(content, FetchImportRe, "")
      c2 == replace(c1, FetchJsxRe, "")
  IN replace(c2, ExportRe, "export const " \o name)

\* Steps 4 and 5: the text written to the test file and to index.ts
ReferenceContent(content, name) ==
  LET c1 == replace(content, FromRe, "from './" \o name \o "'")
  IN replace(c1, PlaceholderRe, name)

\* Step 6: the text written to plugin.ts
FePluginContent(content, name) ==
  LET c1 == replace(content, DynamicImportRe,
                    "import('./components/" \o name \o "')")
  IN replace(c1, MemberRe, "m." \o name)

\* faulty variant: all junk, dev/ included, is removed up front
FeStep1AllJunk(c0, pluginPath) ==
  LET c1 == Log(c0, "Removing junk components...")
      dir == exampleFetchDir(pluginPath)
      c2 == IF Exists(c1, dir)
            THEN rmSync(Log(c1, "  - Removing ExampleFetchComponent/ (mock data junk)"), dir)
            ELSE c1
  IN IF Exists(c2, devDir(pluginPath))
     THEN rmSync(Log(c2, "  - Removing dev/"), devDir(pluginPath))
     ELSE c2

FeStep1(c0, pluginPath) ==
  LET c1 == Log(c0, "Removing junk components...")
      dir == exampleFetchDir(pluginPath)
  IN IF Exists(c1, dir)
     THEN rmSync(Log(c1, "  - Removing ExampleFetchComponent/ (mock data junk)"), dir)
     ELSE c1

FeStep2(c0, pluginPath, name) ==
  LET c1 == Log(c0, "Renaming ExampleComponent to match plugin...")
      dir == exampleComponentDir(pluginPath)
  IN IF Exists(c1, dir)
     THEN renameSync(Log(c1, "  - Renaming ExampleComponent/ -> " \o name \o "/"),
                     dir, newComponentDir(pluginPath, name))
     ELSE c1

\* faulty variant: the old file is deleted before the new one is written
FeStep3DeleteFirst(c0, pluginPath, name) ==
  LET c1 == Log(c0, "  - Updating component file...")
      old == componentFilePath(pluginPath, name)
  IN IF ~Exists(c1, old) THEN c1
     ELSE IF ReadError(c1.fs, old) # "" THEN Throw(c1, ReadError(c1.fs, old))
     ELSE LET content == ComponentContent(c1.fs[old].data, name)
              c2 == unlinkSync(c1, old)
              c3 == writeFileSync(c2, newComponentFilePath(pluginPath, name), content)
          IN Log(c3, "    ExampleComponent.tsx -> " \o name \o ".tsx")

FeStep3(c0, pluginPath, name) ==
  LET c1 == Log(c0, "  - Updating component file...")
      old == componentFilePath(pluginPath, name)
  IN IF ~Exists(c1, old) THEN c1
     ELSE IF ReadError(c1.fs, old) # "" THEN Throw(c1, ReadError(c1.fs, old))
     ELSE LET content == ComponentContent(c1.fs[old].data, name)
              c2 == writeFileSync(c1, newComponentFilePath(pluginPath, name), content)
              c3 == unlinkSync(c2, old)
          IN Log(c3, "    ExampleComponent.tsx -> " \o name \o ".tsx")

FeStep4(c0, pluginPath, name) ==
  LET old == testFilePath(pluginPath, name)
  IN IF ~Exists(c0, old) THEN c0
     ELSE IF ReadError(c0.fs, old) # "" THEN Throw(c0, ReadError(c0.fs, old))
     ELSE LET testContent == ReferenceContent(c0.fs[old].data, name)
              c1 == writeFileSync(c0, newTestFilePath(pluginPath, name), testContent)
              c2 == unlinkSync(c1, old)
          IN Log(c2, "    ExampleComponent.test.tsx -> " \o name \o ".test.tsx")

FeStep5(c0, pluginPath, name) ==
  LET p == indexPath(pluginPath, name)
  IN IF ~Exists(c0, p) THEN c0
     ELSE IF ReadError(c0.fs, p) # "" THEN Throw(c0, ReadError(c0.fs, p))
     ELSE LET indexContent == ReferenceContent(c0.fs[p].data, name)
          IN Log(writeFileSync(c0, p, indexContent), "    index.ts updated")

FeStep6(c0, pluginPath, name) ==
  LET c1 == Log(c0, "Updating plugin.ts...")
      p == pluginFilePath(pluginPath)
  IN IF ~Exists(c1, p) THEN c1
     ELSE IF ReadError(c1.fs, p) # "" THEN Throw(c1, ReadError(c1.fs, p))
     ELSE LET pluginContent == FePluginContent(c1.fs[p].data, name)
          IN Log(writeFileSync(c1, p, pluginContent),
                 "  Updated imports to use " \o name)

FeStep7(c0, pluginPath) ==
  LET c1 == Log(c0, "Removing other junk files...")
      c2 == IF Exists(c1, devDir(pluginPath))
            THEN rmSync(Log(c1, "  - Removing dev/"), devDir(pluginPath))
            ELSE c1
  IN IF Exists(c2, pluginTestPath(pluginPath))
     THEN unlinkSync(Log(c2, "  - Removing plugin.test.ts"), pluginTestPath(pluginPath))
     ELSE c2

FeReport(name) ==
  << "Cleanup complete!",
     "What changed:",
     "  - Removed ExampleFetchComponent (300+ lines of mock data)",
     "  - Renamed ExampleComponent -> " \o name,
     "  - Updated all imports and references",
     "  - Removed dev/ and example tests",
     "Next steps:",
     "  1. Update src/plugin.ts to use the New Frontend System",
     "  2. Customize the component in src/components/${componentName}/",
     "  3. Follow the conversion steps in backstage-frontend-plugin/SKILL.md" >>

(***************************************************************************)
(* cleanup-scaffolding-backend.js (backend variant): steps 1-5             *)
(***************************************************************************)
servicesDir(pluginPath) == PathJoin(<<pluginPath, "src", "services">>)
routerPath(pluginPath) == PathJoin(<<pluginPath, "src", "router.ts">>)
routerTestPath(pluginPath) == PathJoin(<<pluginPath, "src", "router.test.ts">>)

simpleRouter ==
  "import { HttpAuthService } from '@backstage/backend-plugin-api';\n"
  \o "import express from 'express';\n"
  \o "import Router from 'express-promise-router';\n"
  \o "\n"
  \o "export interface RouterOptions {\n"
  \o "  httpAuth: HttpAuthService;\n"
  \o "}\n"
  \o "\n"
  \o "export async function createRouter(\n"
  \o "  options: RouterOptions,\n"
  \o "): Promise<express.Router> {\n"
  \o "  const router = Router();\n"
  \o "  router.use(express.json());\n"
  \o "\n"
  \o "  // Mark options as used to satisfy TypeScript when no auth is wired yet\n"
  \o "  void options;\n"
  \o "\n"
  \o "  router.get('/health', (_req, res) => {\n"
  \o "    res.json({ status: 'ok' });\n"
  \o "  });\n"
  \o "\n"
  \o "  return router;\n"
  \o "}\n"

TodoImportRe ==
  <<Lit("import { todoListServiceRef } from "), Cls(Quote),
    Lit("./services/TodoListService"), Cls(Quote), Opt(";"), Opt("\n")>>
TodoDepsRe == <<Ws, Lit("todoList: todoListServiceRef"), Opt(","), Opt("\n")>>
TodoParamRe == <<Opt(","), Ws, Lit("todoList"), Ws, Opt(",")>>
CreateRouterRe ==
  <<Lit("await createRouter({"), Ws, Lit("httpAuth"), Opt(","), Ws, Lit("})")>>

\* Step 3: the text written to plugin.ts
BePluginContent(content) ==
  LET c1 == replace(content, TodoImportRe, "")
      c2 == replace(c1, TodoDepsRe, "")
      c3 == replace(c2, TodoParamRe, "")
  IN replace(c3, CreateRouterRe, "await createRouter({ httpAuth })")

BeStep1(c0, pluginPath) ==
  LET c1 == Log(c0, "Removing example services...")
      dir == servicesDir(pluginPath)
  IN IF Exists(c1, dir)
     THEN rmSync(Log(c1, "  - Removing services/ (TodoListService with 150+ lines)"), dir)
     ELSE c1

\* faulty variant: the health-check router is appended to the old content
BeStep2Append(c0, pluginPath) ==
  LET c1 == Log(c0, "Simplifying router.ts...")
      p == routerPath(pluginPath)
  IN IF Exists(c1, p) /\ IsFile(c1.fs, p)
     THEN Log(writeFileSync(c1, p, c1.fs[p].data \o simpleRouter),
              "  Replaced with simple /health endpoint")
     ELSE c1

BeStep2(c0, pluginPath) ==
  LET c1 == Log(c0, "Simplifying router.ts...")
      p == routerPath(pluginPath)
  IN IF Exists(c1, p)
     THEN Log(writeFileSync(c1, p, simpleRouter),
              "  Replaced with simple /health endpoint")
     ELSE c1

BeStep3(c0, pluginPath) ==
  LET c1 == Log(c0, "Updating plugin.ts...")
      p == pluginFilePath(pluginPath)
  IN IF ~Exists(c1, p) THEN c1
     ELSE IF ReadError(c1.fs, p) # "" THEN Throw(c1, ReadError(c1.fs, p))
     ELSE LET pluginContent == BePluginContent(c1.fs[p].data)
          IN Log(writeFileSync(c1, p, pluginContent),
                 "  Removed todoList service dependency")

BeStep4(c0, pluginPath) ==
  LET c1 == Log(c0, "Removing example tests...")
      c2 == IF Exists(c1, pluginTestPath(pluginPath))
            THEN unlinkSync(Log(c1, "  - Removing plugin.test.ts"),
                            pluginTestPath(pluginPath))
            ELSE c1
  IN IF Exists(c2, routerTestPath(pluginPath))
     THEN unlinkSync(Log(c2, "  - Removing router.test.ts"),
                     routerTestPath(pluginPath))
     ELSE c2

BeStep5(c0, pluginPath) ==
  IF Exists(c0, devDir(pluginPath))
  THEN rmSync(Log(c0, "  - Removing dev/"), devDir(pluginPath))
  ELSE c0

BeReport(id) ==
  << "Cleanup complete!",
     "What changed:",
     "  - Removed services/TodoListService.ts (150+ lines of example code)",
     "  - Simplified router.ts to just /health endpoint",
     "  - Removed todoList service from plugin.ts",
     "  - Removed example tests (plugin.test.ts, router.test.ts)",
     "  - Removed dev/ directory",
     "Next steps:",
     "  1. Add your own routes in src/router.ts",
     "  2. Create services if needed in src/services/",
     "  3. Follow backstage-backend-plugin/SKILL.md for best practices",
     "Test with: curl http://localhost:7007/api/" \o id \o "/health" >>

(***************************************************************************)
(* The manifest.  JavaScript values are records [t, v]; an object's v is   *)
(* the function from its keys to their values.                             *)
(***************************************************************************)
Undefined == [t |-> "undefined", v |-> ""]
Null == [t |-> "null", v |-> ""]
Str(text) == [t |-> "string", v |-> text]
Num(n) == [t |-> "number", v |-> n]
Obj(props) == [t |-> "object", v |-> props]
EmptyObj == Obj([k \in {} |-> Undefined])

\* o.k ; reading a property of null or undefined throws a TypeError
GetThrows(o) == o.t \in {"null", "undefined"}
Get(o, k) == IF o.t = "object" /\ k \in DOMAIN o.v THEN o.v[k] ELSE Undefined
\* o?.k
GetOptional(o, k) == IF o.t \in {"null", "undefined"} THEN Undefined ELSE Get(o, k)

\* faulty variant: only a missing value is rejected (pluginId === undefined)
TruthyIfDefined(val) == val.t \notin {"undefined", "null"}

\* !value is false
Truthy(val) ==
  CASE val.t = "string" -> val.v # ""
    [] val.t = "number" -> val.v # 0
    [] val.t = "object" -> TRUE
    [] OTHER -> FALSE

\* `${value}` for the values a pluginId can take here
ToText(val) ==
  CASE val.t = "string" -> val.v
    [] val.t = "number" -> ToString(val.v)
    [] OTHER -> val.t

ManifestPrefix == "{\"backstage\":{\"pluginId\":\""
ManifestSuffix == "\"}}"
ManifestFor(id) == ManifestPrefix \o id \o ManifestSuffix

\* JSON.parse on the manifest texts of the model: [ok |-> FALSE] is the
\* SyntaxError, otherwise val is the parsed value
JSONParse(text) ==
  LET n == Len(text)
      idLen == n - Len(ManifestPrefix) - Len(ManifestSuffix)
      inner == SubSeq(text, Len(ManifestPrefix) + 1, Len(ManifestPrefix) + idLen)
  IN CASE text = "null" -> [ok |-> TRUE, val |-> Null]
       [] text = "{}" -> [ok |-> TRUE, val |-> EmptyObj]
       [] text = "{\"backstage\":null}" ->
            [ok |-> TRUE, val |-> Obj([k \in {"backstage"} |-> Null])]
       [] text = "{\"backstage\":{}}" ->
            [ok |-> TRUE, val |-> Obj([k \in {"backstage"} |-> EmptyObj])]
       [] text = "{\"backstage\":{\"pluginId\":7}}" ->
            [ok |-> TRUE,
             val |-> Obj([k \in {"backstage"} |->
                            Obj([j \in {"pluginId"} |-> Num(7)])])]
       [] /\ idLen >= 0
          /\ StartsWithAt(text, 1, ManifestPrefix)
          /\ StartsWithAt(text, n - Len(ManifestSuffix) + 1, ManifestSuffix)
          /\ ~Contains(inner, "\"")
          /\ ~Contains(inner, "\\") ->
            [ok |-> TRUE,
             val |-> Obj([k \in {"backstage"} |->
                            Obj([j \in {"pluginId"} |-> Str(inner)])])]
       [] OTHER -> [ok |-> FALSE, val |-> Undefined]

(***************************************************************************)
(* Inputs: the packages the generator leaves behind and the states a       *)
(* package can be in when a script is started                              *)
(***************************************************************************)
PackageDir == "plugin"

PluginIds ==
  {"my-service", "data-ingest", "example", "example-component", "../../x"}

\* manifests that do not yield a usable identifier
OtherManifests ==
  {"{", "null", "{}", "{\"backstage\":null}", "{\"backstage\":{}}",
   "{\"backstage\":{\"pluginId\":\"\"}}", "{\"backstage\":{\"pluginId\":7}}"}

Manifests == {ManifestFor(id) : id \in PluginIds} \cup OtherManifests

FetchStock == "export const ExampleFetchComponent = () => null;\n"
CompStock ==
  "import { Grid } from '@material-ui/core';\n"
  \o "import { ExampleFetchComponent } from '../ExampleFetchComponent';\n"
  \o "\n"
  \o "export const ExampleComponent = () => (\n"
  \o "  <Grid container>\n"
  \o "    <Grid item>\n"
  \o "      <ExampleFetchComponent />\n"
  \o "    </Grid>\n"
  \o "  </Grid>\n"
  \o ");\n"
CompExtra ==
  "export const ExampleComponent = () => null;\n"
  \o "export default ExampleComponent;\n"
TestStock ==
  "import { ExampleComponent } from './ExampleComponent';\n"
  \o "render(<ExampleComponent />);\n"
TestExtra ==
  "import { ExampleComponent } from './ExampleComponent';\n"
  \o "const props: ExampleComponentProps = {};\n"
  \o "render(<ExampleComponent />);\n"
IndexStock == "export { ExampleComponent } from './ExampleComponent';\n"
FePluginStock ==
  "component: () =>\n"
  \o "  import('./components/ExampleComponent').then(m => m.ExampleComponent),\n"
\* a wiring file that routes to a component of the plugin's own
FePluginPlain ==
  "component: () =>\n"
  \o "  import('./components/Root').then(m => m.Root),\n"
DevStock == "createDevApp().render();\n"
PluginTestStock == "describe('plugin', () => {});\n"

ServiceStock == "export const todoListServiceRef = createServiceRef();\n"
RouterStock ==
  "router.get('/todos', async (_req, res) => {\n"
  \o "  res.json(await todoList.listTodos());\n"
  \o "});\n"
RouterTestStock == "describe('createRouter', () => {});\n"
BePluginStock ==
  "import { createRouter } from './router';\n"
  \o "import { todoListServiceRef } from './services/TodoListService';\n"
  \o "\n"
  \o "deps: {\n"
  \o "  httpAuth: coreServices.httpAuth,\n"
  \o "  todoList: todoListServiceRef,\n"
  \o "},\n"
  \o "async init({ httpAuth, todoList }) {\n"
  \o "  await createRouter({\n"
  \o "    httpAuth,\n"
  \o "    todoList,\n"
  \o "  });\n"
  \o "}\n"
BePluginInline ==
  "async init({ todoList, httpAuth }) {\n"
  \o "  await createRouter({ httpAuth, todoList });\n"
  \o "}\n"

\* other forms a plugin's sources can have: the service parameter between
\* two others, the service imported together with another name, a plugin.ts
\* that never referred to the service, and a component that shows the
\* fetch component in a grid item with a width
BePluginMiddle ==
  "async init({ httpAuth, todoList, logger }) {\n"
  \o "  await createRouter({ httpAuth, todoList, logger });\n"
  \o "}\n"
BePluginMulti ==
  "import { todoListServiceRef, TodoItem } from './services/TodoListService';\n"
  \o "\n"
  \o "deps: {\n"
  \o "  httpAuth: coreServices.httpAuth,\n"
  \o "  todoList: todoListServiceRef,\n"
  \o "},\n"
  \o "async init({ httpAuth, todoList }) {\n"
  \o "  await createRouter({ httpAuth, todoList });\n"
  \o "}\n"
BePluginPlain ==
  "import { createRouter } from './router';\n"
  \o "\n"
  \o "async init({ httpRouter }) {\n"
  \o "  httpRouter.use(await createRouter());\n"
  \o "}\n"
CompWide ==
  "import { ExampleFetchComponent } from '../ExampleFetchComponent';\n"
  \o "\n"
  \o "export const ExampleComponent = () => (\n"
  \o "  <Grid container>\n"
  \o "    <Grid item xs={12}>\n"
  \o "      <ExampleFetchComponent />\n"
  \o "    </Grid>\n"
  \o "  </Grid>\n"
  \o ");\n"

NoFiles == [p \in {} |-> DirNode]
Dirs(paths) == [p \in paths |-> DirNode]
File(p, text) == p :> FileNode(text)
When(cond, f) == IF cond THEN f ELSE NoFiles

FeJunk == {{}, {"fetch"}, {"dev", "test"}, {"fetch", "dev", "test"}}
FeUnits == {"absent", "stock", "extra", "nocomponent"}
FeWirings == {"absent", "stock"}

FeTree(junk, unit, wiring) ==
  LET P == PackageDir
      ex == exampleComponentDir(P)
      fetch == exampleFetchDir(P)
  IN Dirs({PathJoin(<<P, "src">>), componentsDir(P)})
     @@ When("fetch" \in junk,
             Dirs({fetch})
             @@ File(PathJoin(<<fetch, "ExampleFetchComponent.tsx">>), FetchStock))
     @@ When("dev" \in junk,
             Dirs({devDir(P)}) @@ File(PathJoin(<<devDir(P), "index.tsx">>), DevStock))
     @@ When("test" \in junk, File(pluginTestPath(P), PluginTestStock))
     @@ When(unit # "absent",
             Dirs({ex})
             @@ File(PathJoin(<<ex, "ExampleComponent.test.tsx">>),
                     IF unit = "extra" THEN TestExtra ELSE TestStock)
             @@ File(PathJoin(<<ex, "index.ts">>), IndexStock))
     @@ When(unit = "stock", File(PathJoin(<<ex, "ExampleComponent.tsx">>), CompStock))
     @@ When(unit = "extra", File(PathJoin(<<ex, "ExampleComponent.tsx">>), CompExtra))
     @@ When(unit = "wide", File(PathJoin(<<ex, "ExampleComponent.tsx">>), CompWide))
     @@ When(wiring = "stock", File(pluginFilePath(P), FePluginStock))
     @@ When(wiring = "plain", File(pluginFilePath(P), FePluginPlain))

BeJunk ==
  {{}, {"services"}, {"test", "routertest", "dev"},
   {"services", "test", "routertest", "dev"}}
BeRouters == {"absent", "stock"}
BeWirings == {"absent", "stock", "inline"}

BeTree(junk, router, wiring) ==
  LET P == PackageDir
  IN Dirs({PathJoin(<<P, "src">>)})
     @@ When("services" \in junk,
             Dirs({servicesDir(P)})
             @@ File(PathJoin(<<servicesDir(P), "TodoListService.ts">>), ServiceStock))
     @@ When("dev" \in junk,
             Dirs({devDir(P)}) @@ File(PathJoin(<<devDir(P), "index.ts">>), DevStock))
     @@ When("test" \in junk, File(pluginTestPath(P), PluginTestStock))
     @@ When("routertest" \in junk, File(routerTestPath(P), RouterTestStock))
     @@ When(router = "stock", File(routerPath(P), RouterStock))
     @@ When(wiring = "stock", File(pluginFilePath(P), BePluginStock))
     @@ When(wiring = "inline", File(pluginFilePath(P), BePluginInline))
     @@ When(wiring = "middle", File(pluginFilePath(P), BePluginMiddle))
     @@ When(wiring = "multi", File(pluginFilePath(P), BePluginMulti))
     @@ When(wiring = "plain", File(pluginFilePath(P), BePluginPlain))

\* the working directory, the package directory when there is one, its
\* manifest when there is one ("" : none) and the sources
Package(dir, manifest, sources) ==
  Dirs({"."})
  @@ When(dir,
          Dirs({PackageDir})
          @@ When(manifest # "", File(packageJsonPath(PackageDir), manifest))
          @@ sources)

FeSources == {FeTree(j, u, w) : j \in FeJunk, u \in FeUnits, w \in FeWirings}
BeSources == {BeTree(j, r, w) : j \in BeJunk, r \in BeRouters, w \in BeWirings}

(***************************************************************************)
(* State                                                                   *)
(***************************************************************************)
VARIABLES
  variant,        \* which script is run: "frontend" or "backend"
  argv2,          \* process.argv[2], "" when the argument is missing
  fs,             \* the file system
  pc,             \* the position of the running script
  pluginId,       \* packageJson.backstage?.pluginId
  componentName,  \* the derived component name (UI variant)
  exitCode,       \* the exit code of the process, -1 while it runs
  outcome,        \* how the run ended, "running" while it runs
  log,            \* the lines printed by this run
  trace,          \* the file-system calls made by this run
  run,            \* the number of this invocation
  fs0,            \* the file system when this invocation started
  prev,           \* how the previous invocation ended and the tree it left
  origin,         \* the file system before the first invocation
  procs           \* the invocations of a concurrent pair, <<>> when there is none

vars == <<variant, argv2, fs, pc, pluginId, componentName, exitCode, outcome,
          log, trace, run, fs0, prev, origin, procs>>

inputs == <<variant, argv2, run, fs0, prev, origin, procs>>

\* the most mutating file-system calls one step makes
MaxCallsPerStep == 2
Faults == 0..MaxCallsPerStep

\* one invocation about to start on a tree
Reset(tree) ==
  /\ fs = tree
  /\ fs0 = tree
  /\ origin = tree
  /\ prev = [exitCode |-> -1, outcome |-> "none", variant |-> "none",
             tree |-> tree]
  /\ pc = "start"
  /\ pluginId = Undefined
  /\ componentName = ""
  /\ exitCode = -1
  /\ outcome = "running"
  /\ log = <<>>
  /\ trace = <<>>
  /\ run = 1

Fresh(tree) == Reset(tree) /\ procs = <<>>

Init ==
  /\ variant \in {"frontend", "backend"}
  /\ argv2 \in {"", PackageDir}
  /\ \E dir \in BOOLEAN, manifest \in Manifests \cup {""} :
       \E sources \in (IF variant = "frontend" THEN FeSources ELSE BeSources) :
         Fresh(Package(dir, manifest, sources))

(***************************************************************************)
(* Validation: the checks before the try block of both scripts             *)
(***************************************************************************)
Exit(code, kind) ==
  /\ pc' = "done"
  /\ exitCode' = code
  /\ outcome' = kind

Read(op, p) == [op |-> op, path |-> p]

\* if (!pluginPath) { usage; process.exit(1) }
CheckArgs ==
  /\ pc = "start"
  /\ IF argv2 = ""
     THEN /\ Exit(1, "Usage")
          /\ log' = log \o <<"Usage: node "
                               \o (IF variant = "frontend"
                                   THEN "cleanup-scaffolding.js"
                                   ELSE "cleanup-scaffolding-backend.js")
                               \o " <plugin-path>">>
     ELSE /\ pc' = "checkdir"
          /\ log' = log \o <<IF variant = "frontend"
                             THEN "Cleaning up scaffolding junk from plugin..."
                             ELSE "Cleaning up backend scaffolding junk...",
                             "Plugin path: " \o argv2>>
          /\ UNCHANGED <<exitCode, outcome>>
  /\ UNCHANGED <<inputs, fs, pluginId, componentName, trace>>

\* faulty variant: a missing directory does not end the run
CheckDirectoryLenient ==
  /\ pc = "checkdir"
  /\ trace' = Append(trace, Read("existsSync", normalize(argv2)))
  /\ pc' = "checkmanifest"
  /\ UNCHANGED <<exitCode, outcome, log>>
  /\ UNCHANGED <<inputs, fs, pluginId, componentName>>

\* if (!fs.existsSync(pluginPath)) process.exit(1)
CheckDirectory ==
  /\ pc = "checkdir"
  /\ trace' = Append(trace, Read("existsSync", normalize(argv2)))
  /\ IF ~existsSync(fs, normalize(argv2))
     THEN /\ Exit(1, "MissingDirectory")
          /\ log' = Append(log, "Plugin directory not found: " \o argv2)
     ELSE /\ pc' = "checkmanifest"
          /\ UNCHANGED <<exitCode, outcome, log>>
  /\ UNCHANGED <<inputs, fs, pluginId, componentName>>

\* faulty variant: a missing package.json does not end the run
CheckManifestLenient ==
  /\ pc = "checkmanifest"
  /\ trace' = Append(trace, Read("existsSync", packageJsonPath(argv2)))
  /\ pc' = "readmanifest"
  /\ UNCHANGED <<exitCode, outcome, log>>
  /\ UNCHANGED <<inputs, fs, pluginId, componentName>>

\* if (!fs.existsSync(packageJsonPath)) process.exit(1)
CheckManifest ==
  /\ pc = "checkmanifest"
  /\ trace' = Append(trace, Read("existsSync", packageJsonPath(argv2)))
  /\ IF ~existsSync(fs, packageJsonPath(argv2))
     THEN /\ Exit(1, "MissingManifest")
          /\ log' = Append(log, "No package.json found - not a valid plugin directory")
     ELSE /\ pc' = "readmanifest"
          /\ UNCHANGED <<exitCode, outcome, log>>
  /\ UNCHANGED <<inputs, fs, pluginId, componentName>>

\* JSON.parse(fs.readFileSync(packageJsonPath)); the pluginId; the check of
\* the pluginId.  An exception here is outside the try block: the process
\* dies of it with exit code 1.
ReadManifest ==
  /\ pc = "readmanifest"
  /\ trace' = Append(trace, Read("readFileSync", packageJsonPath(argv2)))
  /\ LET p == packageJsonPath(argv2)
         parsed == JSONParse(fs[p].data)
         packageJson == parsed.val
         id == GetOptional(Get(packageJson, "backstage"), "pluginId")
     IN IF ReadError(fs, p) # "" \/ ~parsed.ok \/ GetThrows(packageJson)
        THEN /\ Exit(1, "Uncaught")
             /\ UNCHANGED <<pluginId, log>>
        ELSE /\ pluginId' = id
             /\ IF ~Truthy(id)
                THEN /\ Exit(1, "MissingIdentifier")
                     /\ log' = Append(log, "No pluginId found in package.json - not a valid Backstage plugin")
                ELSE IF variant = "frontend"
                THEN /\ pc' = "derive"
                     /\ UNCHANGED <<exitCode, outcome, log>>
                ELSE /\ pc' = "be1"
                     /\ log' = Append(log, "Plugin ID: " \o ToText(id))
                     /\ UNCHANGED <<exitCode, outcome>>
  /\ UNCHANGED <<inputs, fs, componentName>>

\* UI variant: pluginName = toPascalCase(pluginId), componentName.  A
\* pluginId that is not a string has no split method: TypeError, uncaught.
DeriveName ==
  /\ pc = "derive"
  /\ IF pluginId.t # "string"
     THEN /\ Exit(1, "Uncaught")
          /\ UNCHANGED <<componentName, log>>
     ELSE /\ componentName' = ComponentNameOf(pluginId.v)
          /\ pc' = "fe1"
          /\ log' = log \o <<"Plugin ID: " \o pluginId.v,
                             "Component name: " \o ComponentNameOf(pluginId.v)>>
          /\ UNCHANGED <<exitCode, outcome>>
  /\ UNCHANGED <<inputs, fs, pluginId, trace>>

(***************************************************************************)
(* The steps inside the try block.  A step that throws ends in the catch   *)
(* block: the error is printed and the process exits with code 1.          *)
(***************************************************************************)
Ctx(fault) ==
  [fs |-> fs, err |-> "", muts |-> 0, fault |-> fault, trace |-> trace,
   log |-> log]

\* faulty variant: the catch block prints the error and forgets process.exit(1)
FinishSwallow(c, next) ==
  /\ fs' = c.fs
  /\ trace' = c.trace
  /\ IF c.err # ""
     THEN /\ Exit(0, "CleanupFailed")
          /\ log' = Append(c.log, "Cleanup failed: " \o c.err)
     ELSE /\ pc' = next
          /\ log' = c.log
          /\ UNCHANGED <<exitCode, outcome>>
  /\ UNCHANGED <<inputs, pluginId, componentName>>

Finish(c, next) ==
  /\ fs' = c.fs
  /\ trace' = c.trace
  /\ IF c.err # ""
     THEN /\ Exit(1, "CleanupFailed")
          /\ log' = Append(c.log, "Cleanup failed: " \o c.err)
     ELSE /\ pc' = next
          /\ log' = c.log
          /\ UNCHANGED <<exitCode, outcome>>
  /\ UNCHANGED <<inputs, pluginId, componentName>>

FeRemoveFetch ==
  /\ pc = "fe1"
  /\ \E fault \in Faults : Finish(FeStep1(Ctx(fault), argv2), "fe2")

FeRenameDir ==
  /\ pc = "fe2"
  /\ \E fault \in Faults :
       Finish(FeStep2(Ctx(fault), argv2, componentName),
              IF existsSync(fs, exampleComponentDir(argv2)) THEN "fe3" ELSE "fe6")

FeComponentFile ==
  /\ pc = "fe3"
  /\ \E fault \in Faults : Finish(FeStep3(Ctx(fault), argv2, componentName), "fe4")

FeTestFile ==
  /\ pc = "fe4"
  /\ \E fault \in Faults : Finish(FeStep4(Ctx(fault), argv2, componentName), "fe5")

FeIndexFile ==
  /\ pc = "fe5"
  /\ \E fault \in Faults : Finish(FeStep5(Ctx(fault), argv2, componentName), "fe6")

FePluginFile ==
  /\ pc = "fe6"
  /\ \E fault \in Faults : Finish(FeStep6(Ctx(fault), argv2, componentName), "fe7")

FeRemoveJunk ==
  /\ pc = "fe7"
  /\ \E fault \in Faults : Finish(FeStep7(Ctx(fault), argv2), "report")

BeRemoveServices ==
  /\ pc = "be1"
  /\ \E fault \in Faults : Finish(BeStep1(Ctx(fault), argv2), "be2")

BeRouterFile ==
  /\ pc = "be2"
  /\ \E fault \in Faults : Finish(BeStep2(Ctx(fault), argv2), "be3")

BePluginFile ==
  /\ pc = "be3"
  /\ \E fault \in Faults : Finish(BeStep3(Ctx(fault), argv2), "be4")

BeRemoveTests ==
  /\ pc = "be4"
  /\ \E fault \in Faults : Finish(BeStep4(Ctx(fault), argv2), "be5")

BeRemoveDev ==
  /\ pc = "be5"
  /\ \E fault \in Faults : Finish(BeStep5(Ctx(fault), argv2), "report")

\* "Cleanup complete", the digest and the next steps; the script ends
Report ==
  /\ pc = "report"
  /\ log' = log \o (IF variant = "frontend" THEN FeReport(componentName)
                    ELSE BeReport(ToText(pluginId)))
  /\ Exit(0, "ok")
  /\ UNCHANGED <<inputs, fs, pluginId, componentName, trace>>

\* the same command is run again on the package as the last run left it
Rerun ==
  /\ pc = "done"
  /\ run < MaxRuns
  /\ run' = run + 1
  /\ prev' = [exitCode |-> exitCode, outcome |-> outcome, variant |-> variant,
              tree |-> fs]
  /\ fs0' = fs
  /\ pc' = "start"
  /\ pluginId' = Undefined
  /\ componentName' = ""
  /\ exitCode' = -1
  /\ outcome' = "running"
  /\ log' = <<>>
  /\ trace' = <<>>
  /\ UNCHANGED <<variant, argv2, fs, origin, procs>>

Next ==
  \/ CheckArgs
  \/ CheckDirectory
  \/ CheckManifest
  \/ ReadManifest
  \/ DeriveName
  \/ FeRemoveFetch
  \/ FeRenameDir
  \/ FeComponentFile
  \/ FeTestFile
  \/ FeIndexFile
  \/ FePluginFile
  \/ FeRemoveJunk
  \/ BeRemoveServices
  \/ BeRouterFile
  \/ BePluginFile
  \/ BeRemoveTests
  \/ BeRemoveDev
  \/ Report
  \/ Rerun

Spec == Init /\ [][Next]_vars

(***************************************************************************)
(* The scripts on valid packages whose sources have other forms than the   *)
(* generator's                                                             *)
(***************************************************************************)
InitPatch ==
  /\ variant \in {"frontend", "backend"}
  /\ argv2 = PackageDir
  /\ \E id \in {"my-service", "example-component"} :
       \E sources \in
           (IF variant = "frontend"
            THEN {FeTree(j, u, w) : j \in FeJunk, u \in {"stock", "wide"},
                                   w \in FeWirings \cup {"plain"}}
            ELSE {BeTree(j, r, w) : j \in BeJunk, r \in BeRouters,
                                   w \in BeWirings \cup {"middle", "multi", "plain"}}) :
         Fresh(Package(TRUE, ManifestFor(id), sources))

SpecPatch == InitPatch /\ [][Next]_vars

(***************************************************************************)
(* The two scripts on one package: when a script has ended before its      *)
(* first mutating call, the other script is started on the same package    *)
(* with the same argument.                                                 *)
(***************************************************************************)
RerunOther ==
  /\ pc = "done"
  /\ run < MaxRuns
  /\ \A i \in 1..Len(trace) :
       trace[i].op \notin {"rmSync", "unlinkSync", "writeFileSync", "renameSync"}
  /\ variant' = IF variant = "frontend" THEN "backend" ELSE "frontend"
  /\ run' = run + 1
  /\ prev' = [exitCode |-> exitCode, outcome |-> outcome, variant |-> variant,
              tree |-> fs]
  /\ fs0' = fs
  /\ pc' = "start"
  /\ pluginId' = Undefined
  /\ componentName' = ""
  /\ exitCode' = -1
  /\ outcome' = "running"
  /\ log' = <<>>
  /\ trace' = <<>>
  /\ UNCHANGED <<argv2, fs, origin, procs>>

NextPair ==
  \/ Next
  \/ RerunOther

SpecPair == Init /\ [][NextPair]_vars

(***************************************************************************)
(* The name-derivation specification: the UI script is started on a        *)
(* package whose manifest holds an arbitrary short pluginId and runs up to *)
(* the derivation of the component name.                                   *)
(***************************************************************************)
IdAlphabet == {"a", "b", "-", "1"}

RECURSIVE Strings(_)
Strings(n) ==
  IF n = 0 THEN {""}
  ELSE Strings(n - 1) \cup {w \o c : w \in Strings(n - 1), c \in IdAlphabet}

\* identifiers with path separators and dot segments, and the names of the
\* generator's own components
PathLikeIds ==
  {"x/..", "./x", "a/b", "..", "example-fetch-component", "example-component/..",
   "../example-component"}

NamingIds == Strings(MaxIdLen) \cup PluginIds \cup PathLikeIds

InitNaming ==
  /\ variant = "frontend"
  /\ argv2 = PackageDir
  /\ \E id \in NamingIds :
       Fresh(Package(TRUE, ManifestFor(id), FeTree({}, "absent", "absent")))

NextNaming ==
  \/ CheckArgs
  \/ CheckDirectory
  \/ CheckManifest
  \/ ReadManifest
  \/ DeriveName

SpecNaming == InitNaming /\ [][NextNaming]_vars

(***************************************************************************)
(* Vocabulary of the properties                                            *)
(***************************************************************************)
Done == pc = "done"
Success == Done /\ exitCode = 0

MutatingOps == {"rmSync", "unlinkSync", "writeFileSync", "renameSync"}
Mutations(tr) == {i \in 1..Len(tr) : tr[i].op \in MutatingOps}
NoMutation == Mutations(trace) = {} /\ fs = fs0

Placeholder == "ExampleComponent"

\* the manifest the run started on and what the scripts read from it
ManifestAtStart == fs0[packageJsonPath(argv2)].data
DirectoryAtStart == argv2 # "" /\ existsSync(fs0, normalize(argv2))
HasManifestAtStart == DirectoryAtStart /\ IsFile(fs0, packageJsonPath(argv2))
ManifestParses ==
  /\ HasManifestAtStart
  /\ JSONParse(ManifestAtStart).ok
  /\ ~GetThrows(JSONParse(ManifestAtStart).val)
IdAtStart == GetOptional(Get(JSONParse(ManifestAtStart).val, "backstage"), "pluginId")
IdAbsentOrEmpty ==
  \/ IdAtStart.t \in {"undefined", "null"}
  \/ IdAtStart.t = "string" /\ IdAtStart.v = ""
\* a package every check of the script accepts
ValidPackage ==
  /\ ManifestParses
  /\ Truthy(IdAtStart)
  /\ variant = "frontend" => IdAtStart.t = "string"

SourceFiles(f) ==
  {p \in DOMAIN f : IsFile(f, p) /\ Under(p, PathJoin(<<PackageDir, "src">>))}

RemovalTargets ==
  IF variant = "frontend"
  THEN {exampleFetchDir(PackageDir), devDir(PackageDir), pluginTestPath(PackageDir)}
  ELSE {servicesDir(PackageDir), pluginTestPath(PackageDir),
        routerTestPath(PackageDir), devDir(PackageDir)}

(***************************************************************************)
(* C1  Running the pipeline twice in succession on a valid package leaves  *)
(* the same file tree as running it once: when two successive runs both    *)
(* succeed, the tree after the second equals the tree after the first.     *)
(***************************************************************************)
C1_Idempotent ==
  (Success /\ run >= 2 /\ prev.exitCode = 0) => fs = prev.tree

(***************************************************************************)
(* C2  A package directory without package.json: the run fails with        *)
(* MissingManifest, exits non-zero and mutates nothing.                    *)
(***************************************************************************)
C2_MissingManifest ==
  (Done /\ DirectoryAtStart /\ ~existsSync(fs0, packageJsonPath(argv2)))
    => (outcome = "MissingManifest" /\ exitCode = 1 /\ NoMutation)

C2_Witness ==
  /\ Done
  /\ outcome = "MissingManifest"
  /\ SourceFiles(fs0) # {}
  /\ RemovalTargets \subseteq DOMAIN fs0

ValidationErrors ==
  {"Usage", "MissingDirectory", "MissingManifest", "MissingIdentifier"}

C4_ValidationFirst ==
  /\ (Done /\ argv2 # "" /\ ~existsSync(fs0, normalize(argv2)))
       => /\ outcome = "MissingDirectory"
          /\ exitCode = 1
          /\ trace = <<Read("existsSync", normalize(argv2))>>
          /\ NoMutation
  /\ outcome \in ValidationErrors => (exitCode = 1 /\ NoMutation)
  /\ pc \in {"start", "checkdir", "checkmanifest", "readmanifest", "derive"}
       => NoMutation

C4_Witness ==
  /\ Done
  /\ outcome = "MissingDirectory"
  /\ Len(trace) = 1

(***************************************************************************)
(* C5  After a successful UI run no file under src/ contains the literal   *)
(* ExampleComponent, and the renamed component file exports a symbol named *)
(* exactly ComponentName.                                                  *)
(***************************************************************************)
IdentChars ==
  DOMAIN UpperOf \cup {UpperOf[c] : c \in DOMAIN UpperOf}
  \cup {"0", "1", "2", "3", "4", "5", "6", "7", "8", "9", "_", "$"}

\* text declares "export const <name>" and the identifier ends there
ExportsExactly(text, name) ==
  \E i \in 1..Len(text) :
    /\ StartsWithAt(text, i, "export const " \o name)
    /\ CharAt(text, i + Len("export const " \o name)) \notin IdentChars

C5_NoPlaceholderLeft ==
  (Success /\ variant = "frontend")
    => /\ \A p \in SourceFiles(fs) : ~Contains(fs[p].data, Placeholder)
       /\ existsSync(fs, newComponentFilePath(argv2, componentName))
            => ExportsExactly(fs[newComponentFilePath(argv2, componentName)].data,
                              componentName)

(***************************************************************************)
(* C6  The component name is the pluginId with its "-" separators removed  *)
(* and the first character of every segment upper-cased, followed by       *)
(* "Page"; my-service gives MyServicePage, data-ingest DataIngestPage.     *)
(***************************************************************************)
\* one pass over the characters: a "-" is dropped and makes the next
\* character a first character
RECURSIVE PascalScan(_, _, _)
PascalScan(s, i, first) ==
  IF i > Len(s) THEN ""
  ELSE IF CharAt(s, i) = "-" THEN PascalScan(s, i + 1, TRUE)
  ELSE (IF first THEN toUpperCase(CharAt(s, i)) ELSE CharAt(s, i))
       \o PascalScan(s, i + 1, FALSE)

C6_ComponentName ==
  pc = "fe1"
    => /\ componentName = PascalScan(pluginId.v, 1, TRUE) \o "Page"
       /\ pluginId.v = "my-service" => componentName = "MyServicePage"
       /\ pluginId.v = "data-ingest" => componentName = "DataIngestPage"

C6_Witness ==
  /\ pc = "fe1"
  /\ pluginId.v = "a--b"
  /\ componentName = "ABPage"

(***************************************************************************)
(* C7  After a successful backend run router.ts registers the single       *)
(* health-check route and refers to no example service, whatever it held   *)
(* before.                                                                 *)
(***************************************************************************)
RouteCalls ==
  {"router.get(", "router.post(", "router.put(", "router.delete(",
   "router.patch(", "router.all("}

Routes(text) ==
  {<<r, i>> \in RouteCalls \X (1..Len(text)) : StartsWithAt(text, i, r)}

C7_RouterOnlyHealth ==
  (Success /\ variant = "backend" /\ existsSync(fs, routerPath(argv2)))
    => LET text == fs[routerPath(argv2)].data
       IN /\ IsFile(fs, routerPath(argv2))
          /\ Cardinality(Routes(text)) = 1
          /\ Contains(text, "router.get('/health'")
          /\ ~Contains(text, "todo")
          /\ ~Contains(text, "Todo")

C7_Witness ==
  /\ Success
  /\ variant = "backend"
  /\ IsFile(fs0, routerPath(argv2))
  /\ Contains(fs0[routerPath(argv2)].data, "todoList")
  /\ IsFile(fs, routerPath(argv2))

(***************************************************************************)
(* C8  A package in which every removal target is already absent: the run  *)
(* reports every target as skipped (it reports no removal), exits          *)
(* successfully and the removal steps change nothing.                      *)
(***************************************************************************)
ReportsRemoval(line) ==
  StartsWithAt(line, 1, "  - Removing") \/ StartsWithAt(line, 1, "  - Removed")

C8_AllSkipped ==
  (Done /\ ValidPackage /\ RemovalTargets \cap DOMAIN fs0 = {}
        /\ ~\E i \in 1..Len(log) : StartsWithAt(log[i], 1, "Cleanup failed"))
    => /\ exitCode = 0
       /\ \A i \in 1..Len(log) : ~ReportsRemoval(log[i])
       /\ \A i \in Mutations(trace) : trace[i].path \notin RemovalTargets
       /\ RemovalTargets \cap DOMAIN fs = {}

(***************************************************************************)
(* C9  The steps run in the order Validator, Remover, Rename Engine, Patch *)
(* Engine, Reporter: every removal of a removal target comes before every  *)
(* rename or patch mutation, and no mutation comes before the end of       *)
(* validation.                                                             *)
(***************************************************************************)
IsRemoval(e) == e.op \in {"rmSync", "unlinkSync"} /\ e.path \in RemovalTargets
IsRenameOrPatch(e) == e.op \in MutatingOps /\ ~IsRemoval(e)

C9_RemoveBeforeRewrite ==
  LET removal == {i \in 1..Len(trace) : IsRemoval(trace[i])}
      rewrite == {i \in 1..Len(trace) : IsRenameOrPatch(trace[i])}
      reads == {i \in 1..Len(trace) : trace[i].op \notin MutatingOps}
  IN /\ \A i \in rewrite, j \in removal : j < i
     /\ \A i \in reads, j \in Mutations(trace) : i < j

\* the component names of the packages, and for each name the paths the
\* rename step forms from it
ComponentNames == {ComponentNameOf(id) : id \in PluginIds}

UnitPaths ==
  [n \in ComponentNames |->
     [dir |-> newComponentDir(PackageDir, n),
      component |-> componentFilePath(PackageDir, n),
      newComponent |-> newComponentFilePath(PackageDir, n),
      test |-> testFilePath(PackageDir, n),
      newTest |-> newTestFilePath(PackageDir, n),
      index |-> indexPath(PackageDir, n)]]

\* the calls of the steps that do not depend on the component name
FeFixedCalls ==
  [fetch |-> Read("rmSync", exampleFetchDir(PackageDir)),
   rename |-> Read("renameSync", exampleComponentDir(PackageDir)),
   plugin |-> Read("writeFileSync", pluginFilePath(PackageDir)),
   dev |-> Read("rmSync", devDir(PackageDir)),
   test |-> Read("unlinkSync", pluginTestPath(PackageDir))]

BeCalls ==
  << {Read("rmSync", servicesDir(PackageDir))},
     {Read("writeFileSync", routerPath(PackageDir))},
     {Read("writeFileSync", pluginFilePath(PackageDir))},
     {Read("unlinkSync", pluginTestPath(PackageDir)),
      Read("unlinkSync", routerTestPath(PackageDir))},
     {Read("rmSync", devDir(PackageDir))} >>

\* the calls each numbered step of the running script makes
StepCalls ==
  IF variant = "backend" THEN BeCalls
  ELSE LET named == componentName \in ComponentNames
           u == UnitPaths[componentName]
       IN << {FeFixedCalls.fetch},
             {FeFixedCalls.rename},
             IF named THEN {Read("writeFileSync", u.newComponent),
                            Read("unlinkSync", u.component)}
             ELSE {},
             IF named THEN {Read("writeFileSync", u.newTest),
                            Read("unlinkSync", u.test)}
             ELSE {},
             IF named THEN {Read("writeFileSync", u.index)} ELSE {},
             {FeFixedCalls.plugin},
             {FeFixedCalls.dev, FeFixedCalls.test} >>

\* the numbered step a call belongs to: 0 for the reads of validation, -1
\* for a call no step makes
StepOf(e, calls) ==
  IF e.op \notin MutatingOps THEN 0
  ELSE IF \E k \in 1..Len(calls) : e \in calls[k]
  THEN CHOOSE k \in 1..Len(calls) : e \in calls[k]
  ELSE -1

ReportPrinted == \E i \in 1..Len(log) : log[i] = "Cleanup complete!"

C9_StepOrder ==
  LET calls == StepCalls
      step == [i \in 1..Len(trace) |-> StepOf(trace[i], calls)]
  IN /\ \A i \in 1..Len(trace) : step[i] >= 0
     /\ \A i \in 1..(Len(trace) - 1) : step[i] <= step[i + 1]
     /\ \A i \in 1..Len(trace) : step[i] = 1 => IsRemoval(trace[i])
     /\ ReportPrinted => Done

C9_Witness ==
  /\ Success
  /\ \E i \in 1..Len(trace) : trace[i].op = "rmSync" /\ StepOf(trace[i], StepCalls) = 1
  /\ \E i \in 1..(Len(trace) - 1) :
       IsRenameOrPatch(trace[i]) /\ IsRemoval(trace[i + 1])

(***************************************************************************)
(* C10  The exit code is 0 exactly when validation passed and no mutation  *)
(* step raised; every validation failure and every exception in a step     *)
(* gives a non-zero exit code.                                             *)
(***************************************************************************)
StepRaised == \E i \in 1..Len(log) : StartsWithAt(log[i], 1, "Cleanup failed")

C10_ExitCode ==
  /\ Done => exitCode \in {0, 1}
  /\ ~Done => exitCode = -1
  /\ Done => (exitCode = 0 <=> (ValidPackage /\ ~StepRaised))
  /\ (Done /\ Mutations(trace) # {} /\ fs # fs0 /\ StepRaised) => exitCode = 1

C10_Witness ==
  /\ Done
  /\ exitCode = 1
  /\ ValidPackage
  /\ StepRaised
  /\ fs # fs0


(***************************************************************************)
(* An uninterrupted run: the steps of the try block one after the other,   *)
(* no call failing for a reason outside the tree                           *)
(***************************************************************************)
Quiet(tree) ==
  [fs |-> tree, err |-> "", muts |-> 0, fault |-> 0, trace |-> <<>>,
   log |-> <<>>]

FeRun(tree, pluginPath, name) ==
  LET c1 == FeStep1(Quiet(tree), pluginPath)
      c2 == FeStep2(c1, pluginPath, name)
      c5 == IF Exists(c1, exampleComponentDir(pluginPath))
            THEN FeStep5(FeStep4(FeStep3(c2, pluginPath, name), pluginPath, name),
                         pluginPath, name)
            ELSE c2
  IN FeStep7(FeStep6(c5, pluginPath, name), pluginPath)

BeRun(tree, pluginPath) ==
  BeStep5(BeStep4(BeStep3(BeStep2(BeStep1(Quiet(tree), pluginPath), pluginPath),
                          pluginPath), pluginPath), pluginPath)

\* C11: every successful re-run, whatever the earlier runs did (completed or
\* aborted part-way), leaves the package in the cleaned state that one
\* uninterrupted run on the original package produces.
C11_Converges ==
  LET clean == IF variant = "frontend" THEN FeRun(origin, argv2, componentName)
               ELSE BeRun(origin, argv2)
  IN (Success /\ run >= 2 /\ clean.err = "") => fs = clean.fs

(***************************************************************************)
(* C12  The report                                                         *)
(***************************************************************************)
\* the changes the closing digest lists, each with the call that performs it
DigestEntries ==
  LET P == PackageDir
  IN IF variant = "frontend"
     THEN {[line |-> "  - Removed ExampleFetchComponent (300+ lines of mock data)",
            call |-> Read("rmSync", exampleFetchDir(P))],
           [line |-> "  - Renamed ExampleComponent -> " \o componentName,
            call |-> Read("renameSync", exampleComponentDir(P))],
           [line |-> "  - Removed dev/ and example tests",
            call |-> Read("rmSync", devDir(P))]}
     ELSE {[line |-> "  - Removed services/TodoListService.ts (150+ lines of example code)",
            call |-> Read("rmSync", servicesDir(P))],
           [line |-> "  - Simplified router.ts to just /health endpoint",
            call |-> Read("writeFileSync", routerPath(P))],
           [line |-> "  - Removed todoList service from plugin.ts",
            call |-> Read("writeFileSync", pluginFilePath(P))],
           [line |-> "  - Removed dev/ directory",
            call |-> Read("rmSync", devDir(P))]}

Printed(line) == \E i \in 1..Len(log) : log[i] = line

\* C12: in the report of a successful run a change is listed only if the run
\* performed it, and a sub-step whose target was absent when the run started
\* is reported as skipped.
C12_ReportFaithful ==
  Success =>
    \A e \in DigestEntries :
      /\ Printed(e.line) => \E i \in 1..Len(trace) : trace[i] = e.call
      /\ e.call.path \notin DOMAIN fs0
           => \E i \in 1..Len(log) : Contains(log[i], "kipped")

(***************************************************************************)
(* C13  Where a run writes                                                 *)
(***************************************************************************)
\* the paths at which two trees differ
Changed(f, g) ==
  {p \in DOMAIN f \cup DOMAIN g :
     p \notin DOMAIN f \/ p \notin DOMAIN g \/ f[p] # g[p]}

\* the paths a run has touched so far: those named by its mutating calls and
\* those at which the tree differs from the tree the run started on
Touched ==
  {trace[i].path : i \in Mutations(trace)} \cup Changed(fs0, fs)

\* C13 (as stated): every path a run creates, overwrites, renames or deletes
\* lies under <path>/src.
C13_OnlyUnderSrc == \A p \in Touched : Under(p, "plugin/src")

\* C13 (amended): every path a run touches lies under <path>/src, or is
\* <path>/dev or below it, or is one of the paths the rename step forms from
\* the component name: the directory path.join(<path>/src/components, name),
\* anything below it, and the files name.tsx and name.test.tsx joined to it.
C13_Frame ==
  \A p \in Touched :
    \/ Under(p, "plugin/src")
    \/ Under(p, "plugin/dev")
    \/ /\ componentName \in ComponentNames
       /\ LET u == UnitPaths[componentName]
          IN Under(p, u.dir) \/ p \in {u.newComponent, u.newTest}

\* a finished run that removed <path>/dev with what it held
C13_Witness ==
  /\ Done
  /\ "plugin/dev" \in DOMAIN fs0 \ DOMAIN fs
  /\ \E p \in DOMAIN fs0 \ DOMAIN fs : p # "plugin/dev" /\ Under(p, "plugin/dev")

(***************************************************************************)
(* C14  One validator for both scripts                                     *)
(***************************************************************************)
ValidationPcs == {"start", "checkdir", "checkmanifest", "readmanifest", "derive"}

\* C14: when one script has ended in validation on a package, the other
\* script started with the same argument on the same package ends in
\* validation too, before any mutation and with the same error; hence no
\* input passes the validation of one script and fails that of the other.
C14_SameValidator ==
  (run >= 2 /\ prev.variant # variant /\ pc \notin ValidationPcs)
    => /\ Done
       /\ NoMutation
       /\ outcome = prev.outcome

(***************************************************************************)
(* C15  The rename step without the placeholder directory                  *)
(***************************************************************************)
\* the files of the component unit, before and after the move, and the
\* wiring file
RenameStepPaths ==
  LET moved == PathJoin(<<"plugin/src/components", componentName>>)
  IN {p \in DOMAIN fs0 \cup DOMAIN fs \cup {trace[i].path : i \in 1..Len(trace)} :
        \/ p = "plugin/src/plugin.ts"
        \/ Under(p, "plugin/src/components/ExampleComponent")
        \/ componentName # "" /\ Under(p, moved)}

\* C15: a UI run started on a package without src/components/ExampleComponent
\* creates, rewrites and deletes no file of the component unit and does not
\* rewrite src/plugin.ts.
C15_RenameNoOp ==
  (variant = "frontend"
     /\ "plugin/src/components/ExampleComponent" \notin DOMAIN fs0)
    => \A p \in RenameStepPaths :
         /\ p \notin Changed(fs0, fs)
         /\ \A i \in Mutations(trace) : trace[i].path # p

(***************************************************************************)
(* C16  The moved unit                                                     *)
(***************************************************************************)
\* the relative module paths a text imports or re-exports from: what stands
\* between "from './" and the closing quote
ImportTargets(text) ==
  {SubSeq(text, i + 8, indexOf(text, "'", i + 8) - 1) :
     i \in {j \in 1..Len(text) : StartsWithAt(text, j, "from './")}}

\* this run moved a placeholder unit that had its component file
MovedUnit ==
  /\ variant = "frontend"
  /\ IsFile(fs0, "plugin/src/components/ExampleComponent/ExampleComponent.tsx")
  /\ \E i \in 1..Len(trace) :
       trace[i] = Read("renameSync", "plugin/src/components/ExampleComponent")

\* C16: after a successful UI run that moved the placeholder unit, the test
\* file and the index file of the moved directory name the component by
\* ComponentName, and every relative import path in them is './' followed by
\* ComponentName and names a file of the moved directory that exports
\* ComponentName.
C16_SelfConsistent ==
  (Success /\ MovedUnit) =>
    LET D == newComponentDir(argv2, componentName)
        refs == {newTestFilePath(argv2, componentName),
                 indexPath(argv2, componentName)}
    IN \A f \in refs :
         /\ IsFile(fs, f)
         /\ Contains(fs[f].data, "{ " \o componentName \o " }")
         /\ \A t \in ImportTargets(fs[f].data) :
              LET file == PathJoin(<<D, t \o ".tsx">>)
              IN /\ t = componentName
                 /\ IsFile(fs, file)
                 /\ ExportsExactly(fs[file].data, componentName)

(***************************************************************************)
(* C17  Whole identifiers                                                  *)
(***************************************************************************)
\* w stands at position i of text as a whole identifier
WholeAt(text, i, w) ==
  /\ StartsWithAt(text, i, w)
  /\ CharAt(text, i - 1) \notin IdentChars
  /\ CharAt(text, i + Len(w)) \notin IdentChars

WholeCount(text, w) == Cardinality({i \in 1..Len(text) : WholeAt(text, i, w)})

\* the identifier of text that covers positions i..j
IdentAround(text, i, j) ==
  LET a == Min({k \in 1..i : \A m \in k..(i - 1) : CharAt(text, m) \in IdentChars})
      b == CHOOSE k \in j..Len(text) :
             /\ \A m \in (j + 1)..k : CharAt(text, m) \in IdentChars
             /\ CharAt(text, k + 1) \notin IdentChars
  IN SubSeq(text, a, b)

\* the longer identifiers of text that contain the placeholder name
LongerIdents(text) ==
  {IdentAround(text, i, i + Len(Placeholder) - 1) :
     i \in {k \in 1..Len(text) : /\ StartsWithAt(text, k, Placeholder)
                                 /\ ~WholeAt(text, k, Placeholder)}}

\* the files the rename step rewrites: where each was when the run started
\* and where it is when the run has ended
Rewritten ==
  LET P == PackageDir
      old == exampleComponentDir(P)
      n == componentName
  IN {r \in {[from |-> PathJoin(<<old, "ExampleComponent.tsx">>),
              to |-> newComponentFilePath(P, n)],
             [from |-> PathJoin(<<old, "ExampleComponent.test.tsx">>),
              to |-> newTestFilePath(P, n)],
             [from |-> PathJoin(<<old, "index.ts">>), to |-> indexPath(P, n)],
             [from |-> pluginFilePath(P), to |-> pluginFilePath(P)]} :
        IsFile(fs0, r.from) /\ IsFile(fs, r.to)}

\* C17: in every file a successful UI run rewrote, no whole-identifier
\* occurrence of the placeholder name is left, each has become ComponentName,
\* and every longer identifier that merely contains the placeholder name
\* occurs as often as before.
C17_WholeIdentifiers ==
  (Success /\ MovedUnit) =>
    \A r \in Rewritten :
      LET before == fs0[r.from].data
          after == fs[r.to].data
      IN /\ WholeCount(after, Placeholder) = 0
         /\ WholeCount(after, componentName)
              = WholeCount(before, Placeholder) + WholeCount(before, componentName)
         /\ \A id \in LongerIdents(before) :
              WholeCount(after, id) = WholeCount(before, id)

(***************************************************************************)
(* C18  Write before delete                                                *)
(***************************************************************************)
\* the files of the unit that are renamed: the name each had in the
\* placeholder directory, its path in the moved directory and the path of
\* the file written in its place
RenamedFiles ==
  LET u == UnitPaths[componentName]
  IN {[start |-> "plugin/src/components/ExampleComponent/ExampleComponent.tsx",
       old |-> u.component,
       new |-> u.newComponent,
       after |-> {"fe4", "fe5", "fe6", "fe7", "report"}],
      [start |-> "plugin/src/components/ExampleComponent/ExampleComponent.test.tsx",
       old |-> u.test,
       new |-> u.newTest,
       after |-> {"fe5", "fe6", "fe7", "report"}]}

\* this run has moved the placeholder directory
MovedDirectory ==
  /\ variant = "frontend"
  /\ "plugin/src/components/ExampleComponent" \notin DOMAIN fs
  /\ \E i \in 1..Len(trace) :
       trace[i] = Read("renameSync", "plugin/src/components/ExampleComponent")

\* C18: the deletion of an old file directly follows the write of its new
\* file; once the directory is moved, every file of the unit that is to be
\* renamed exists under its old or its new name in every state; both names
\* exist together only in the state an abort between the write and the
\* deletion leaves; and when the file's step has completed, the new file
\* exists and the old one does not.
C18_WriteBeforeDelete ==
  componentName \in ComponentNames =>
    \A r \in RenamedFiles :
      /\ \A i \in 1..Len(trace) :
           trace[i] = Read("unlinkSync", r.old)
             => i > 1 /\ trace[i - 1] = Read("writeFileSync", r.new)
      /\ (MovedDirectory /\ IsFile(fs0, r.start)) =>
           /\ IsFile(fs, r.old) \/ IsFile(fs, r.new)
           /\ (IsFile(fs, r.old) /\ IsFile(fs, r.new)) => (Done /\ exitCode = 1)
           /\ (pc \in r.after \/ Success) => (IsFile(fs, r.new) /\ ~IsFile(fs, r.old))

\* the state left by an abort between the write of the new component file
\* and the deletion of the old one
C18_Witness ==
  /\ Done
  /\ exitCode = 1
  /\ MovedDirectory
  /\ \E r \in RenamedFiles :
       /\ IsFile(fs0, r.start)
       /\ IsFile(fs, r.old)
       /\ IsFile(fs, r.new)
       /\ trace[Len(trace)] = Read("unlinkSync", r.old)

(***************************************************************************)
(* C19  The wiring file after the move                                     *)
(***************************************************************************)
\* C19: after a successful UI run on a package whose src/plugin.ts referred
\* to the placeholder unit by path, src/plugin.ts imports
\* './components/<ComponentName>' and takes the symbol ComponentName from it,
\* refers to the placeholder path no more, and the import resolves: the
\* directory src/components/<ComponentName> has an index.ts that re-exports
\* ComponentName from a file that exists and exports it.
C19_WiringResolves ==
  LET wiring == "plugin/src/plugin.ts"
      D == newComponentDir(argv2, componentName)
      index == indexPath(argv2, componentName)
  IN (Success /\ variant = "frontend" /\ IsFile(fs0, wiring)
        /\ Contains(fs0[wiring].data, "./components/ExampleComponent'"))
       => /\ IsFile(fs, wiring)
          /\ ~Contains(fs[wiring].data, "./components/ExampleComponent'")
          /\ Contains(fs[wiring].data, "import('./components/" \o componentName \o "')")
          /\ WholeCount(fs[wiring].data, componentName) >= 2
          /\ WholeCount(fs[wiring].data, Placeholder) = 0
          /\ IsFile(fs, index)
          /\ Contains(fs[index].data, "{ " \o componentName \o " }")
          /\ \A t \in ImportTargets(fs[index].data) :
               /\ IsFile(fs, PathJoin(<<D, t \o ".tsx">>))
               /\ ExportsExactly(fs[PathJoin(<<D, t \o ".tsx">>)].data, componentName)

(***************************************************************************)
(* C20  Patching a patched wiring file                                     *)
(***************************************************************************)
\* the patch rules of the running script applied to a content of plugin.ts
Patch(content) ==
  IF variant = "frontend" THEN FePluginContent(content, componentName)
  ELSE BePluginContent(content)

\* C20: when the patch step of either script has completed, src/plugin.ts
\* holds the patched content of the file the run started on, and applying
\* the patch rules to it once more changes nothing.
C20_PatchIdempotent ==
  LET wiring == "plugin/src/plugin.ts"
  IN (pc \in {"fe7", "be4"} /\ IsFile(fs0, wiring))
       => /\ IsFile(fs, wiring)
          /\ fs[wiring].data = Patch(fs0[wiring].data)
          /\ Patch(fs[wiring].data) = fs[wiring].data

(***************************************************************************)
(* C21  The example service in plugin.ts                                   *)
(***************************************************************************)
\* C21: after a successful backend run src/plugin.ts does not refer to the
\* removed example service: it names neither todoList nor the module
\* ./services/TodoListService.
C21_NoServiceReference ==
  (Success /\ variant = "backend" /\ IsFile(fs, "plugin/src/plugin.ts"))
    => /\ ~Contains(fs["plugin/src/plugin.ts"].data, "todoList")
       /\ ~Contains(fs["plugin/src/plugin.ts"].data, "services/TodoListService")

(***************************************************************************)
(* C22  The removal steps                                                  *)
(***************************************************************************)
\* the removal steps: the targets of each and the step that follows it
RemovalSteps ==
  [fe1 |-> [targets |-> {"plugin/src/components/ExampleFetchComponent"},
            next |-> "fe2"],
   fe7 |-> [targets |-> {"plugin/dev", "plugin/src/plugin.test.ts"},
            next |-> "report"],
   be1 |-> [targets |-> {"plugin/src/services"}, next |-> "be2"],
   be4 |-> [targets |-> {"plugin/src/plugin.test.ts", "plugin/src/router.test.ts"},
            next |-> "be5"],
   be5 |-> [targets |-> {"plugin/dev"}, next |-> "report"]]

\* tree f without the targets and what lies below them
Kept(f, targets) ==
  [p \in {q \in DOMAIN f : \A t \in targets : ~Under(q, t)} |-> f[p]]

\* what a step taken from a state at a removal step does
RemovalStepEffect ==
  pc \in DOMAIN RemovalSteps =>
    LET step == RemovalSteps[pc]
    IN /\ pc' \in {step.next, "done"}
       /\ pc' = step.next => fs' = Kept(fs, step.targets)
       /\ step.targets \cap DOMAIN fs = {}
            => (pc' = step.next /\ fs' = fs /\ trace' = trace)
       /\ pc' = "done"
            => /\ exitCode' = 1
               /\ log'[Len(log')] = "Cleanup failed: EACCES"

\* C22: a removal step that completes leaves the tree it found without its
\* targets and without anything below them, and the run goes on with the
\* next step; when no target exists the step completes, makes no call and
\* changes nothing; a removal step ends the run only when the environment
\* refuses one of its calls.
C22_RemovalStep == [][RemovalStepEffect]_vars

\* a removal step has removed a directory that held a file
C22_Witness ==
  /\ pc = "fe2"
  /\ IsDir(fs0, "plugin/src/components/ExampleFetchComponent")
  /\ IsFile(fs0, "plugin/src/components/ExampleFetchComponent/ExampleFetchComponent.tsx")
  /\ \A p \in DOMAIN fs : ~Under(p, "plugin/src/components/ExampleFetchComponent")
  /\ trace[Len(trace)] = Read("rmSync", "plugin/src/components/ExampleFetchComponent")


(***************************************************************************)
(* C23  Patch rules without a match                                        *)
(***************************************************************************)
\* the rules of the patch step of the running script, in the order applied
PatchRules ==
  IF variant = "frontend"
  THEN <<[re |-> DynamicImportRe,
          repl |-> "import('./components/" \o componentName \o "')"],
         [re |-> MemberRe, repl |-> "m." \o componentName]>>
  ELSE <<[re |-> TodoImportRe, repl |-> ""],
         [re |-> TodoDepsRe, repl |-> ""],
         [re |-> TodoParamRe, repl |-> ""],
         [re |-> CreateRouterRe, repl |-> "await createRouter({ httpAuth })"]>>

\* the content after the first n rules
RECURSIVE AfterRules(_, _, _)
AfterRules(rules, content, n) ==
  IF n = 0 THEN content
  ELSE replace(AfterRules(rules, content, n - 1), rules[n].re, rules[n].repl)

\* the rules that find nothing to replace in the content they are given
Unmatched(rules, content) ==
  {i \in 1..Len(rules) : ~test(rules[i].re, AfterRules(rules, content, i - 1))}

\* C23: when the patch step of either script has completed, every rule that
\* matched nothing in the content handed to it has left that content as it
\* was, plugin.ts holds the outcome of the whole rule sequence, and a run
\* that ends in failure does so only through a failed file-system call,
\* never through a rule without a match.
C23_NoMatchNoOp ==
  LET wiring == "plugin/src/plugin.ts"
  IN /\ (pc \in {"fe7", "be4"} /\ IsFile(fs0, wiring))
          => LET before == fs0[wiring].data
             IN /\ \A i \in Unmatched(PatchRules, before) :
                     AfterRules(PatchRules, before, i)
                       = AfterRules(PatchRules, before, i - 1)
                /\ IsFile(fs, wiring)
                /\ fs[wiring].data = AfterRules(PatchRules, before, Len(PatchRules))
                /\ Unmatched(PatchRules, before) = 1..Len(PatchRules)
                     => fs[wiring].data = before
                /\ outcome = "running"
     /\ (Done /\ exitCode = 1 /\ Len(trace) > 0)
          => log[Len(log)] = "Cleanup failed: EACCES"

C23_Witness ==
  LET wiring == "plugin/src/plugin.ts"
  IN /\ Success
     /\ IsFile(fs0, wiring)
     /\ Unmatched(PatchRules, fs0[wiring].data) = 1..Len(PatchRules)
     /\ trace # <<>>
     /\ \E i \in 1..Len(trace) : trace[i] = [op |-> "writeFileSync", path |-> wiring]
     /\ fs[wiring].data = fs0[wiring].data


(***************************************************************************)
(* C24  A file-system error in the middle of a run                         *)
(***************************************************************************)
MutationPcs ==
  {"fe1", "fe2", "fe3", "fe4", "fe5", "fe6", "fe7",
   "be1", "be2", "be3", "be4", "be5"}

\* a step of the try block ends the run with the error the platform raised
StepAborts ==
  /\ pc \in MutationPcs
  /\ pc' = "done"
  /\ log'[Len(log')] = "Cleanup failed: EACCES"

PrefixOfStepsEffect == StepAborts => (exitCode' = 1 /\ fs' = fs)

PrefixOfCallsEffect ==
  StepAborts =>
    LET calls == SubSeq(trace', Len(trace) + 1, Len(trace'))
        n == Len(calls)
        failed == calls[n].path
    IN /\ exitCode' = 1
       /\ n >= 1
       /\ SubSeq(trace', 1, Len(trace)) = trace
       /\ (failed \in DOMAIN fs) = (failed \in DOMAIN fs')
       /\ failed \in DOMAIN fs => fs'[failed] = fs[failed]
       /\ \A i \in 1..(n - 1) :
            IF calls[i].op = "writeFileSync" THEN IsFile(fs', calls[i].path)
            ELSE calls[i].path \notin DOMAIN fs'
       /\ \A p \in Changed(fs, fs') : \E i \in 1..(n - 1) : Under(p, calls[i].path)
       /\ n = 1 => fs' = fs

Procs == {1, 2}
RaceId == "my-service"

Ins(op, p, to, text, skip) ==
  [op |-> op, path |-> p, to |-> to, text |-> text, skip |-> skip]
\* if (!fs.existsSync(p)) process.exit(1)
InsRequire(p) == Ins("require", p, "", "", 0)
InsRead(p) == Ins("readFileSync", p, "", "", 0)
InsWrite(p, text) == Ins("writeFileSync", p, "", text, 0)
InsRemove(p) == Ins("rmSync", p, "", "", 0)
InsUnlink(p) == Ins("unlinkSync", p, "", "", 0)
InsRename(from, to) == Ins("renameSync", from, to, "", 0)

\* faulty variant: the calls are made without looking first
Unguarded(p, body) == body
\* if (fs.existsSync(p)) { body }
Guarded(p, body) == <<Ins("existsSync", p, "", "", Len(body))>> \o body

FeProgram(P, name) ==
  LET old == componentFilePath(P, name)
      oldTest == testFilePath(P, name)
      index == indexPath(P, name)
  IN <<InsRequire(P), InsRequire(packageJsonPath(P)), InsRead(packageJsonPath(P))>>
     \o Guarded(exampleFetchDir(P), <<InsRemove(exampleFetchDir(P))>>)
     \o Guarded(exampleComponentDir(P),
                <<InsRename(exampleComponentDir(P), newComponentDir(P, name))>>
                \o Guarded(old, <<InsRead(old),
                                  InsWrite(newComponentFilePath(P, name), "component"),
                                  InsUnlink(old)>>)
                \o Guarded(oldTest, <<InsRead(oldTest),
                                      InsWrite(newTestFilePath(P, name), "reference"),
                                      InsUnlink(oldTest)>>)
                \o Guarded(index, <<InsRead(index), InsWrite(index, "reference")>>))
     \o Guarded(pluginFilePath(P),
                <<InsRead(pluginFilePath(P)), InsWrite(pluginFilePath(P), "uiPlugin")>>)
     \o Guarded(devDir(P), <<InsRemove(devDir(P))>>)
     \o Guarded(pluginTestPath(P), <<InsUnlink(pluginTestPath(P))>>)

BeProgram(P) ==
  <<InsRequire(P), InsRequire(packageJsonPath(P)), InsRead(packageJsonPath(P))>>
  \o Guarded(servicesDir(P), <<InsRemove(servicesDir(P))>>)
  \o Guarded(routerPath(P), <<InsWrite(routerPath(P), "router")>>)
  \o Guarded(pluginFilePath(P),
             <<InsRead(pluginFilePath(P)), InsWrite(pluginFilePath(P), "plugin")>>)
  \o Guarded(pluginTestPath(P), <<InsUnlink(pluginTestPath(P))>>)
  \o Guarded(routerTestPath(P), <<InsUnlink(routerTestPath(P))>>)
  \o Guarded(devDir(P), <<InsRemove(devDir(P))>>)

RaceName == ComponentNameOf(RaceId)
FeRaceProgram == FeProgram(PackageDir, RaceName)
BeRaceProgram == BeProgram(PackageDir)
RaceProgram == IF variant = "frontend" THEN FeRaceProgram ELSE BeRaceProgram

\* the text a write call is given, from the text last read
TextOf(kind, content) ==
  CASE kind = "component" -> ComponentContent(content, RaceName)
    [] kind = "reference" -> ReferenceContent(content, RaceName)
    [] kind = "uiPlugin" -> FePluginContent(content, RaceName)
    [] kind = "plugin" -> BePluginContent(content)
    [] kind = "router" -> simpleRouter

\* a process: its position, the path its last successful existence check was
\* about, the text it last read, the mutating calls it completed, and its
\* exit code (-1 while it runs) with the error and the path of the failed call
ProcStart ==
  [at |-> 1, checked |-> "", content |-> "", calls |-> {}, exit |-> -1,
   err |-> "", failed |-> ""]

RaceFrame ==
  UNCHANGED <<variant, argv2, pc, pluginId, componentName, exitCode, outcome,
              log, trace, run, fs0, prev, origin>>

Running(i) == procs[i].exit = -1 /\ procs[i].at <= Len(RaceProgram)
Current(i) == RaceProgram[procs[i].at]
Fails(i, code) ==
  procs' = [procs EXCEPT ![i].exit = 1, ![i].err = code, ![i].failed = Current(i).path]

\* fs.existsSync, in a validation check or as the condition of an if-block
RaceCheck(i) ==
  /\ Running(i)
  /\ Current(i).op \in {"require", "existsSync"}
  /\ IF existsSync(fs, Current(i).path)
     THEN procs' = [procs EXCEPT ![i].at = @ + 1, ![i].checked = Current(i).path]
     ELSE IF Current(i).op = "require"
          THEN procs' = [procs EXCEPT ![i].exit = 1]
          ELSE procs' = [procs EXCEPT ![i].at = @ + 1 + Current(i).skip]
  /\ UNCHANGED fs
  /\ RaceFrame

RaceRead(i) ==
  /\ Running(i)
  /\ Current(i).op = "readFileSync"
  /\ IF ReadError(fs, Current(i).path) # ""
     THEN Fails(i, ReadError(fs, Current(i).path))
     ELSE procs' = [procs EXCEPT ![i].at = @ + 1,
                                 ![i].content = fs[Current(i).path].data]
  /\ UNCHANGED fs
  /\ RaceFrame

\* the error a mutating call raises on a tree ("" when none) and the tree
\* it leaves
CallError(f, ins) ==
  IF ins.op = "rmSync" THEN RmError(f, ins.path)
  ELSE IF ins.op = "unlinkSync" THEN UnlinkError(f, ins.path)
  ELSE IF ins.op = "writeFileSync" THEN WriteError(f, ins.path)
  ELSE RenameError(f, ins.path, ins.to)
CallResult(f, ins, content) ==
  IF ins.op = "rmSync" THEN RmResult(f, ins.path)
  ELSE IF ins.op = "unlinkSync" THEN UnlinkResult(f, ins.path)
  ELSE IF ins.op = "writeFileSync"
  THEN WriteResult(f, ins.path, TextOf(ins.text, content))
  ELSE RenameResult(f, ins.path, ins.to)

RaceMutate(i) ==
  /\ Running(i)
  /\ Current(i).op \in {"rmSync", "unlinkSync", "writeFileSync", "renameSync"}
  /\ IF CallError(fs, Current(i)) # ""
     THEN Fails(i, CallError(fs, Current(i))) /\ UNCHANGED fs
     ELSE /\ fs' = CallResult(fs, Current(i), procs[i].content)
          /\ procs' = [procs EXCEPT ![i].at = @ + 1,
                                    ![i].calls = @ \cup {Read(Current(i).op,
                                                              Current(i).path)}]
  /\ RaceFrame

\* the end of the script: the report is printed and the process exits with 0
RaceExit(i) ==
  /\ procs[i].exit = -1
  /\ procs[i].at > Len(RaceProgram)
  /\ procs' = [procs EXCEPT ![i].exit = 0]
  /\ UNCHANGED fs
  /\ RaceFrame

\* the packages a pair starts on: with and without the scaffolding junk,
\* the unit and the wiring file
RaceJunk == {{}, {"fetch", "services", "dev", "test", "routertest"}}
FeRaceTrees ==
  {Package(TRUE, ManifestFor(RaceId), FeTree(j, u, w)) :
     j \in RaceJunk, u \in {"absent", "stock"}, w \in FeWirings}
BeRaceTrees ==
  {Package(TRUE, ManifestFor(RaceId), BeTree(j, r, w)) :
     j \in RaceJunk, r \in BeRouters, w \in {"absent", "stock"}}

InitRace ==
  /\ variant \in {"frontend", "backend"}
  /\ argv2 = PackageDir
  /\ \E tree \in (IF variant = "frontend" THEN FeRaceTrees ELSE BeRaceTrees) :
       Reset(tree)
  /\ procs = [i \in Procs |-> ProcStart]

NextRace ==
  \/ \E i \in Procs : RaceCheck(i)
  \/ \E i \in Procs : RaceRead(i)
  \/ \E i \in Procs : RaceMutate(i)
  \/ \E i \in Procs : RaceExit(i)

SpecRace == InitRace /\ [][NextRace]_vars

(***************************************************************************)
(* C25  Two invocations on one package                                     *)
(***************************************************************************)
\* what one invocation alone makes of the package the pair started on
FeAlone == [tree \in FeRaceTrees |-> FeRun(tree, PackageDir, RaceName)]
BeAlone == [tree \in BeRaceTrees |-> BeRun(tree, PackageDir)]
Alone == IF variant = "frontend" THEN FeAlone[origin] ELSE BeAlone[origin]

RemovingOps == {"rmSync", "unlinkSync", "renameSync"}

\* process i found its target gone between its check and its call
LostRace(i) ==
  /\ procs[i].exit = 1
  /\ procs[i].err = "ENOENT"
  /\ procs[i].failed = procs[i].checked
  /\ procs[i].failed \in DOMAIN origin
  /\ \E j \in Procs \ {i} :
       \E call \in procs[j].calls :
         call.op \in RemovingOps /\ call.path = procs[i].failed

\* C25: of two invocations at once on a package that one invocation alone
\* cleans without error, one can end with a non-zero exit, and it does so
\* only by losing a race: the call that failed was on a target the
\* invocation had just seen to exist and that the other invocation deleted
\* or renamed in between.  An invocation that meets no interference from
\* the other, and a pair that both exit with 0, leave the tree that one
\* invocation alone leaves.
C25_FailsOnlyByRace ==
  /\ Alone.err = ""
  /\ \A i \in Procs :
       /\ procs[i].exit = 1 => LostRace(i)
       /\ (procs[i].exit = 0 /\ \A j \in Procs \ {i} : procs[j].at = 1)
            => fs = Alone.fs
  /\ (\A i \in Procs : procs[i].exit = 0) => fs = Alone.fs

\* the UI variant: one invocation saw ExampleComponent/ and then failed to
\* rename it, because the other had renamed it and went on to exit with 0
C25_Witness ==
  /\ variant = "frontend"
  /\ \E i \in Procs :
       /\ LostRace(i)
       /\ procs[i].failed = "plugin/src/components/ExampleComponent"
       /\ \A j \in Procs \ {i} : procs[j].exit = 0
  /\ Alone.err = ""


(***************************************************************************)
(* C26  The paths formed from the component name                           *)
(***************************************************************************)
\* the paths a run has brought into being
Created == DOMAIN fs \ DOMAIN fs0

\* C26: whatever pluginId the manifest holds, every path the UI script
\* creates, renames, writes or deletes lies inside the package directory,
\* and every path it brings into being lies under <path>/src/components.
C26_InsidePackage ==
  variant = "frontend" =>
    /\ \A p \in Touched : Under(p, "plugin")
    /\ \A p \in Created : Under(p, "plugin/src/components")


(***************************************************************************)
(* C27  Removing todoList from a list                                      *)
(***************************************************************************)
\* the entries of the first brace-enclosed list that follows a marker in a
\* text: the identifiers between "{" and "}", split at the commas and trimmed
IsSpace(ch) == ch \in {" ", "\n", "\t"}
RECURSIVE Trim(_)
Trim(s) ==
  IF s = "" THEN s
  ELSE IF IsSpace(CharAt(s, 1)) THEN Trim(SubSeq(s, 2, Len(s)))
  ELSE IF IsSpace(CharAt(s, Len(s))) THEN Trim(SubSeq(s, 1, Len(s) - 1))
  ELSE s

Entries(text, marker) ==
  LET at == indexOf(text, marker, 1)
      open == at + Len(marker)
      close == indexOf(text, "}", open)
      items == split(SubSeq(text, open, close - 1), ",")
      trimmed == [i \in 1..Len(items) |-> Trim(items[i])]
  IN IF at = 0 \/ close = 0 THEN <<>>
     ELSE SelectSeq(trimmed, LAMBDA e : e # "")

ListMarkers == {"async init({", "createRouter({"}

\* C27: when the backend patch has run, each parameter list of plugin.ts
\* holds the entries it held before, todoList left out, in the same order
\* and as separate entries.
C27_NeighboursKept ==
  LET wiring == "plugin/src/plugin.ts"
  IN (variant = "backend" /\ pc = "be4" /\ IsFile(fs0, wiring) /\ IsFile(fs, wiring))
       => \A marker \in ListMarkers :
            Entries(fs[wiring].data, marker)
              = SelectSeq(Entries(fs0[wiring].data, marker),
                          LAMBDA e : e # "todoList")


(***************************************************************************)
(* C28  The sibling's import and its usage                                 *)
(***************************************************************************)
\* the component file the UI script has written
NewComponentFile == newComponentFilePath(argv2, componentName)

\* C28: once the UI script has rewritten the component file, the file uses
\* ExampleFetchComponent as an element exactly when it still imports it.
C28_ImportWithUsage ==
  (variant = "frontend" /\ pc \in {"fe4", "fe5", "fe6", "fe7", "report"}
     /\ componentName \in ComponentNames /\ IsFile(fs, NewComponentFile))
    => (Contains(fs[NewComponentFile].data, "<ExampleFetchComponent")
          <=> Contains(fs[NewComponentFile].data, "import { ExampleFetchComponent }"))


(***************************************************************************)
(* C29  Sources and destinations of the move                               *)
(***************************************************************************)
\* a package with the generator's unit, sibling and wiring file
StockPackage ==
  Package(TRUE, ManifestFor("x"), FeTree({"fetch", "dev", "test"}, "stock", "stock"))

\* C29: for the name derived from any pluginId, the directory the unit is
\* moved to is neither ExampleComponent/ nor ExampleFetchComponent/, the
\* files <ComponentName>.tsx and <ComponentName>.test.tsx are not the files
\* ExampleComponent.tsx and ExampleComponent.test.tsx they are written
\* from, and a run of the steps on the generator's package that ends
\* without error leaves both written files in place.
C29_DestinationsDiffer ==
  (pc = "fe1" /\ variant = "frontend") =>
    LET P == argv2
        name == componentName
        r == FeRun(StockPackage, P, name)
    IN /\ newComponentDir(P, name)
            \notin {exampleComponentDir(P), exampleFetchDir(P)}
       /\ newComponentFilePath(P, name) # componentFilePath(P, name)
       /\ newTestFilePath(P, name) # testFilePath(P, name)
       /\ r.err = "" => /\ IsFile(r.fs, newComponentFilePath(P, name))
                        /\ IsFile(r.fs, newTestFilePath(P, name))

\* the identifier whose name comes closest to the generator's own
C29_Witness ==
  /\ pc = "fe1"
  /\ pluginId.v = "example-component"
  /\ componentName = "ExampleComponentPage"
  /\ newComponentDir(argv2, componentName) = "plugin/src/components/ExampleComponentPage"
  /\ LET r == FeRun(StockPackage, argv2, componentName)
     IN /\ r.err = ""
        /\ IsFile(r.fs, "plugin/src/components/ExampleComponentPage/ExampleComponentPage.tsx")
        /\ ~existsSync(r.fs, "plugin/src/components/ExampleComponentPage/ExampleComponent.tsx")


(***************************************************************************)
(* C30  A manifest without a usable identifier                             *)
(***************************************************************************)
\* the manifest is there and does not parse, or the identifier cannot be
\* read from what it parses to, or the identifier is not a string
UnusableManifest ==
  /\ HasManifestAtStart
  /\ \/ ~JSONParse(ManifestAtStart).ok
     \/ GetThrows(JSONParse(ManifestAtStart).val)
     \/ IdAtStart.t # "string"

\* C30: on a package whose manifest yields no string identifier, a run of
\* either script makes no mutating call, changes nothing, and ends with a
\* non-zero exit code.
C30_UnusableManifest ==
  UnusableManifest => (NoMutation /\ (Done => exitCode = 1))
====
